---------------------------- MODULE Spec2Model ----------------------------
(***************************************************************************)
(* A model of masked_fastmail: the domain canonicalizer (normalizeOrigin,  *)
(* domainsEqual), the alias matcher (filterAliasesForList and its          *)
(* predicates), the alias selector (selectPreferredAlias) and the          *)
(* lookup-or-create command with the client calls it makes.                *)
(*                                                                         *)
(* Strings are TLA+ strings; TLC treats them as sequences of one-character *)
(* strings (Len, SubSeq, Head, Tail and \o apply to them).  The alphabet   *)
(* of the model is ASCII letters, digits, space, tab and the URL           *)
(* punctuation . / : @ ? # - ; it holds no '%', '[' or ']'.                *)
(*                                                                         *)
(* A function of the program is written as a chain of operators, each      *)
(* taking the values computed so far as parameters, in the order the code  *)
(* computes them.                                                          *)
(***************************************************************************)
EXTENDS Integers, Sequences, FiniteSets, TLC

VARIABLES
    op,       \* the operation the current state results from
    arg,      \* the operation's input
    ret,      \* the operation's result
    server,   \* the remote service's alias records
    pc,       \* position of the running command
    sent,     \* the requests this invocation has sent, in order
    fetched   \* what the alias fetch of this invocation returned

vars == <<op, arg, ret, server, pc, sent, fetched>>

---------------------------------------------------------------------------
(* Go's strings package, on the model's alphabet.                          *)

UpperLetters == "ABCDEFGHIJKLMNOPQRSTUVWXYZ"
LowerLetters == "abcdefghijklmnopqrstuvwxyz"
DigitChars == "0123456789"

CharsOf(s) == {SubSeq(s, i, i) : i \in 1..Len(s)}

SetMin(S) == CHOOSE x \in S : \A y \in S : x <= y
SetMax(S) == CHOOSE x \in S : \A y \in S : x >= y
MinOrZero(S) == IF S = {} THEN 0 ELSE SetMin(S)
MaxOrZero(S) == IF S = {} THEN 0 ELSE SetMax(S)

\* the positions at which sub occurs in s
Occurrences(s, sub) ==
    {i \in 1..(Len(s) - Len(sub) + 1) : SubSeq(s, i, i + Len(sub) - 1) = sub}

Contains(s, sub) == sub = "" \/ Occurrences(s, sub) # {}

\* strings.Index / strings.LastIndex, 1-based; 0 when sub does not occur
Index(s, sub) == MinOrZero(Occurrences(s, sub))
LastIndex(s, sub) == MaxOrZero(Occurrences(s, sub))

\* strings.Count for a one-character sub
Count(s, sub) == Cardinality(Occurrences(s, sub))

ContainsAny(s, chars) == \E i \in 1..Len(s) : SubSeq(s, i, i) \in CharsOf(chars)

\* unicode.ToLower on the upper-case letters, and on any character
LowerOf == [c \in CharsOf(UpperLetters) |->
              SubSeq(LowerLetters, Index(UpperLetters, c), Index(UpperLetters, c))]
LowerChar(c) == IF c \in DOMAIN LowerOf THEN LowerOf[c] ELSE c

RECURSIVE ToLower(_)
ToLower(s) == IF s = "" THEN "" ELSE LowerChar(Head(s)) \o ToLower(Tail(s))

\* unicode.IsSpace, on the alphabet
IsSpace(c) == c \in {" ", "\t", "\n", "\r", "\f"}

\* s from the first to the last of the positions kept
Between(s, keep) == IF keep = {} THEN "" ELSE SubSeq(s, SetMin(keep), SetMax(keep))
TrimSpace(s) == Between(s, {i \in 1..Len(s) : ~IsSpace(SubSeq(s, i, i))})

HasPrefix(s, p) == Len(s) >= Len(p) /\ SubSeq(s, 1, Len(p)) = p
HasSuffix(s, p) == Len(s) >= Len(p) /\ SubSeq(s, Len(s) - Len(p) + 1, Len(s)) = p

\* strings.Cut: the text before and after the first sep (at position i, 0 if absent)
BeforeAt(s, i) == IF i = 0 THEN s ELSE SubSeq(s, 1, i - 1)
AfterAt(s, i, n) == IF i = 0 THEN "" ELSE SubSeq(s, i + n, Len(s))
CutBefore(s, sep) == BeforeAt(s, Index(s, sep))
CutAfter(s, sep) == AfterAt(s, Index(s, sep), Len(sep))

TrimSuffix(s, p) == IF HasSuffix(s, p) THEN SubSeq(s, 1, Len(s) - Len(p)) ELSE s

\* strings.TrimRight(s, cutset): every trailing character of cutset removed
UpToLast(s, keep) == IF keep = {} THEN "" ELSE SubSeq(s, 1, SetMax(keep))
TrimRight(s, cutset) ==
    UpToLast(s, {i \in 1..Len(s) : SubSeq(s, i, i) \notin CharsOf(cutset)})

---------------------------------------------------------------------------
(* Go's net/url: Parse and URL.Hostname, as normalizeOrigin uses them.     *)

Letters == CharsOf(UpperLetters) \cup CharsOf(LowerLetters)
Digits == CharsOf(DigitChars)
IsLetter(c) == c \in Letters
IsDigit(c) == c \in Digits

\* stringContainsCTLByte: a byte below 0x20
ContainsCTL(s) == \E i \in 1..Len(s) : SubSeq(s, i, i) \in {"\t", "\n", "\r", "\f"}

ParseFailed == [err |-> TRUE, scheme |-> "", host |-> ""]

\* getScheme ends at i, the first character that cannot continue a scheme
SchemeAt(raw, i) ==
    IF i = 0 THEN [err |-> FALSE, scheme |-> "", rest |-> raw]
    ELSE IF SubSeq(raw, i, i) # ":" THEN [err |-> FALSE, scheme |-> "", rest |-> raw]
    ELSE IF i = 1 THEN [err |-> TRUE, scheme |-> "", rest |-> ""]
    ELSE [err |-> FALSE, scheme |-> SubSeq(raw, 1, i - 1),
          rest |-> SubSeq(raw, i + 1, Len(raw))]

\* whether getScheme goes on past character c at position i
SchemeChar(c, i) == IsLetter(c) \/ (i > 1 /\ (IsDigit(c) \/ c \in {"+", "-", "."}))

\* getScheme: [err, scheme, rest]
GetScheme(raw) ==
    SchemeAt(raw, MinOrZero({i \in 1..Len(raw) : ~SchemeChar(SubSeq(raw, i, i), i)}))

\* validOptionalPort: "" or ":" followed by digits only
ValidOptionalPort(port) ==
    port = "" \/ (Head(port) = ":" /\ \A i \in 2..Len(port) : IsDigit(SubSeq(port, i, i)))

\* shouldEscape(c, encodeHost): the characters a host may hold
HostCharOK(c) == IsLetter(c) \/ IsDigit(c) \/ c \in {"-", ".", ":", "_", "~", "+"}

\* parseHost: the port after the last colon (at position colon) must be valid
PortOK(host, colon) == colon # 0 => ValidOptionalPort(SubSeq(host, colon, Len(host)))

\* parseHost: the host is rejected for a bad port or a character it may not hold
ParseHostOK(host) ==
    /\ PortOK(host, LastIndex(host, ":"))
    /\ \A i \in 1..Len(host) : HostCharOK(SubSeq(host, i, i))

\* validUserinfo, on the alphabet
UserinfoCharOK(c) ==
    IsLetter(c) \/ IsDigit(c) \/ c \in {"-", ".", "_", ":", "~", "+", "@"}
ValidUserinfo(u) == \A i \in 1..Len(u) : UserinfoCharOK(SubSeq(u, i, i))

\* parseAuthority once split at the last '@': [err, host]
AuthorityParts(userinfo, host) ==
    IF ~ParseHostOK(host) THEN [err |-> TRUE, host |-> ""]
    ELSE IF ~ValidUserinfo(userinfo) THEN [err |-> TRUE, host |-> ""]
    ELSE [err |-> FALSE, host |-> host]

\* parseAuthority: [err, host], the user-info before the last '@' (at position at) dropped
AuthorityAt(authority, at) ==
    AuthorityParts(SubSeq(authority, 1, at - 1),
                   IF at = 0 THEN authority ELSE SubSeq(authority, at + 1, Len(authority)))
ParseAuthority(authority) == AuthorityAt(authority, LastIndex(authority, "@"))

\* parse: the URL of a scheme and a parsed authority
WithAuthority(scheme, pa) ==
    IF pa.err THEN ParseFailed ELSE [err |-> FALSE, scheme |-> scheme, host |-> pa.host]

\* parse: what follows the scheme, the query removed
ParseRest(scheme, rest) ==
    IF ~HasPrefix(rest, "/") /\ scheme # ""
    THEN [err |-> FALSE, scheme |-> scheme, host |-> ""]       \* an opaque URL
    ELSE IF ~HasPrefix(rest, "/") /\ Contains(CutBefore(rest, "/"), ":")
    THEN ParseFailed                        \* first path segment cannot contain colon
    ELSE IF (scheme # "" \/ ~HasPrefix(rest, "///")) /\ HasPrefix(rest, "//")
    THEN WithAuthority(scheme, ParseAuthority(CutBefore(SubSeq(rest, 3, Len(rest)), "/")))
    ELSE [err |-> FALSE, scheme |-> scheme, host |-> ""]

\* parse: the query is cut off
StripQuery(rest) ==
    IF HasSuffix(rest, "?") /\ Count(rest, "?") = 1
    THEN SubSeq(rest, 1, Len(rest) - 1)
    ELSE CutBefore(rest, "?")

\* parse: after getScheme
ParseAfterScheme(gs) ==
    IF gs.err THEN ParseFailed ELSE ParseRest(ToLower(gs.scheme), StripQuery(gs.rest))

\* parse: the URL without its fragment
ParseNoFragment(u) ==
    IF ContainsCTL(u) THEN ParseFailed
    ELSE IF u = "*" THEN [err |-> FALSE, scheme |-> "", host |-> ""]
    ELSE ParseAfterScheme(GetScheme(u))

\* url.Parse: [err, scheme, host]; scheme as URL.Scheme, host as URL.Host
URLParse(rawURL) == ParseNoFragment(CutBefore(rawURL, "#"))

\* a plausible slip: the port stays in the host
HostnameKeepsPort(host) == host

\* URL.Hostname: URL.Host without a valid port
HostnameAt(host, colon) ==
    IF colon # 0 /\ ValidOptionalPort(SubSeq(host, colon, Len(host)))
    THEN SubSeq(host, 1, colon - 1)
    ELSE host
Hostname(host) == HostnameAt(host, LastIndex(host, ":"))

---------------------------------------------------------------------------
(* The domain canonicalizer and the identity classifier.                   *)

defaultScheme == "https"

NormalizeError(kind) == [err |-> kind, value |-> ""]

\* normalizeOrigin from the host check on; scheme is lower-cased already
normalizeHost(scheme, host) ==
    IF host = "" THEN NormalizeError("MissingHost")
    ELSE [err |-> "",
          value |-> (IF scheme = "" THEN defaultScheme ELSE scheme) \o "://"
                    \o TrimSuffix(ToLower(host), ".")]

\* a plausible slip: the error of url.Parse is not looked at
normalizeParsedUnchecked(parsed) ==
    normalizeHost(ToLower(parsed.scheme), Hostname(parsed.host))

\* normalizeOrigin from the result of url.Parse on
normalizeParsed(parsed) ==
    IF parsed.err THEN NormalizeError("ParseFailure")
    ELSE normalizeHost(ToLower(parsed.scheme), Hostname(parsed.host))

\* normalizeOrigin from the trimmed input on
normalizeTrimmed(trimmed) ==
    IF trimmed = "" THEN NormalizeError("EmptyInput")
    ELSE normalizeParsed(URLParse(IF ~Contains(trimmed, "://")
                                  THEN defaultScheme \o "://" \o trimmed
                                  ELSE trimmed))

\* normalizeOrigin: [err, value]; err is "" on success
normalizeOrigin(input) == normalizeTrimmed(TrimSpace(input))

\* domainsEqual: the fallback comparison of the literals
literalsEqual(a, b) ==
    TrimRight(ToLower(TrimSpace(a)), "/") = TrimRight(ToLower(TrimSpace(b)), "/")

\* a plausible slip: the literals are compared whether normalization failed or not
domainsEqualAlwaysLiteral(a, b, na, nb) == literalsEqual(a, b)

\* domainsEqual, the two normalizations done
domainsEqualNormalized(a, b, na, nb) ==
    IF na.err = "" /\ nb.err = "" THEN na.value = nb.value ELSE literalsEqual(a, b)

\* a plausible slip: the stored text is compared as it is, without normalization
domainsEqualUnnormalized(a, b) == a = b

\* domainsEqual
domainsEqual(a, b) == domainsEqualNormalized(a, b, normalizeOrigin(a), normalizeOrigin(b))

\* looksLikeEmail
looksLikeEmail(input) == Count(input, "@") = 1 /\ ~ContainsAny(input, " \t")

PrepareError(kind) == [err |-> kind, display |-> "", normalized |-> ""]

\* prepareDomainInput from the result of normalizeOrigin on
prepareNormalized(trimmed, n) ==
    IF n.err # "" THEN PrepareError(n.err)
    ELSE [err |-> "", display |-> trimmed, normalized |-> n.value]

\* a plausible slip: an email address is normalized like any other identifier
prepareTrimmedUnclassified(trimmed) ==
    IF trimmed = "" THEN PrepareError("EmptyInput")
    ELSE prepareNormalized(trimmed, normalizeOrigin(trimmed))

\* prepareDomainInput from the trimmed input on
prepareTrimmed(trimmed) ==
    IF trimmed = "" THEN PrepareError("EmptyInput")
    ELSE IF looksLikeEmail(trimmed) THEN PrepareError("AmbiguousInput")
    ELSE prepareNormalized(trimmed, normalizeOrigin(trimmed))

\* prepareDomainInput: [err, display, normalized]
prepareDomainInput(input) == prepareTrimmed(TrimSpace(input))

\* normalizeEmailInput from the trimmed input on; the two errors are the
\* function's two messages ("alias email cannot be empty", "expected an alias
\* email address, got ...")
emailTrimmed(trimmed) ==
    IF trimmed = "" THEN [err |-> "EmptyInput", email |-> ""]
    ELSE IF ~looksLikeEmail(trimmed) THEN [err |-> "NotAnEmail", email |-> ""]
    ELSE [err |-> "", email |-> trimmed]

\* normalizeEmailInput: [err, email]
normalizeEmailInput(input) == emailTrimmed(TrimSpace(input))

---------------------------------------------------------------------------
(* Alias records and the alias selector.                                   *)

AliasPending == "pending"
AliasEnabled == "enabled"
AliasDisabled == "disabled"
AliasDeleted == "deleted"

\* MaskedEmailInfo, with the Description field main.go reads
MaskedEmailInfo(email, forDomain, description, state, id) ==
    [email |-> email, forDomain |-> forDomain, description |-> description,
     state |-> state, id |-> id]

\* the statePriority table
statePriority ==
    (AliasEnabled :> 0) @@ (AliasPending :> 1) @@ (AliasDisabled :> 2) @@ (AliasDeleted :> 3)

\* math.MaxInt
MaxInt == 2147483647

\* the selector of an earlier revision: a state missing from the table reads as 0
getStatePriorityZeroValue(state) ==
    IF state \in DOMAIN statePriority THEN statePriority[state] ELSE 0

\* getStatePriority
getStatePriority(state) ==
    IF state \in DOMAIN statePriority THEN statePriority[state] ELSE MaxInt

\* a plausible slip: <= in place of <, so the last of the best records wins
RECURSIVE selectScanLastWins(_, _, _)
selectScanLastWins(aliases, i, selected) ==
    IF i > Len(aliases) THEN selected
    ELSE IF getStatePriority(aliases[i].state) <= getStatePriority(aliases[selected].state)
         THEN selectScanLastWins(aliases, i + 1, i)
         ELSE selectScanLastWins(aliases, i + 1, selected)

\* the loop of selectPreferredAlias from index i on, selected being the best so far
RECURSIVE selectScan(_, _, _)
selectScan(aliases, i, selected) ==
    IF i > Len(aliases) THEN selected
    ELSE IF getStatePriority(aliases[i].state) < getStatePriority(aliases[selected].state)
         THEN selectScan(aliases, i + 1, i)
         ELSE selectScan(aliases, i + 1, selected)

\* the warnings selectPreferredAlias writes: one per record of unknown state
selectWarnings(aliases) ==
    SelectSeq([i \in 1..Len(aliases) |-> aliases[i].state],
              LAMBDA st : st \notin DOMAIN statePriority)

\* selectPreferredAlias: the index of the selected record, 0 for nil
selectPreferredAlias(aliases) ==
    IF Len(aliases) = 0 THEN 0 ELSE selectScan(aliases, 2, 1)

---------------------------------------------------------------------------
(* The alias matcher.                                                      *)

\* aliasMatchesDomain
aliasMatchesDomain(alias, normalizedDomain) ==
    \/ domainsEqual(alias.forDomain, normalizedDomain)
    \/ /\ TrimSpace(alias.forDomain) = ""
       /\ domainsEqual(alias.description, normalizedDomain)

\* hostFromOrigin, the origin normalized
hostOfNormalized(n) == IF n.err # "" THEN "" ELSE CutAfter(n.value, "://")

\* hostFromOrigin: the bare host of an origin, "" when there is none
hostFromOrigin(origin) == hostOfNormalized(normalizeOrigin(origin))

\* isSubdomain: one host is a strict subdomain of the other
isSubdomain(a, b) == HasSuffix(a, "." \o b) \/ HasSuffix(b, "." \o a)

\* aliasMatchesSubdomain, the two hosts extracted
subdomainOfHosts(targetHost, aliasHost) ==
    IF targetHost = "" THEN FALSE
    ELSE IF aliasHost = "" THEN FALSE
    ELSE isSubdomain(aliasHost, targetHost)

\* a plausible slip: the description is never consulted
aliasMatchesSubdomainForDomainOnly(alias, targetDomain) ==
    subdomainOfHosts(hostFromOrigin(targetDomain), hostFromOrigin(alias.forDomain))

\* aliasMatchesSubdomain
aliasMatchesSubdomain(alias, targetDomain) ==
    subdomainOfHosts(hostFromOrigin(targetDomain),
                     hostFromOrigin(IF TrimSpace(alias.forDomain) = ""
                                    THEN alias.description
                                    ELSE alias.forDomain))

\* aliasMatchesSearch: the inner loop, for one needle already trimmed
needleInFields(needle, fields) ==
    /\ needle # ""
    /\ \E f \in 1..Len(fields) : fields[f] # "" /\ Contains(fields[f], needle)

\* aliasMatchesSearch: the outer loop over the needles
anyNeedleInFields(needles, fields) ==
    \E n \in 1..Len(needles) : needleInFields(TrimSpace(needles[n]), fields)

\* aliasMatchesSearch; needles is the sequence of the variadic arguments
aliasMatchesSearch(alias, needles) ==
    anyNeedleInFields(needles,
                      <<ToLower(alias.email), ToLower(alias.description),
                        ToLower(alias.forDomain), ToLower(alias.id)>>)

\* a plausible slip: deleted records are listed
listSkipsNothing(alias) == FALSE

\* filterAliasesForList: the record is skipped
listSkips(alias) == alias.state = AliasDeleted

\* a plausible slip: the search text is matched as typed
searchNeedleAsTyped(searchInput) == TrimSpace(searchInput)

\* filterAliasesForList: needleSearch
searchNeedle(searchInput) == ToLower(TrimSpace(searchInput))

\* a plausible slip: a blank id is deduplicated like any other
addRelatedDedupAll(acc, alias) ==
    IF alias.id \in acc.seen THEN acc
    ELSE [acc EXCEPT !.seen = @ \cup {alias.id}, !.related = Append(@, alias)]

\* filterAliasesForList: a subdomain or search match joins related unless its id was seen
addRelated(acc, alias) ==
    IF alias.id # ""
    THEN IF alias.id \in acc.seen THEN acc
         ELSE [acc EXCEPT !.seen = @ \cup {alias.id}, !.related = Append(@, alias)]
    ELSE [acc EXCEPT !.related = Append(@, alias)]

\* filterAliasesForList: an exact match joins primary and its id is recorded
addPrimary(acc, alias) ==
    [acc EXCEPT !.primary = Append(@, alias),
                !.seen = IF alias.id # "" THEN @ \cup {alias.id} ELSE @]

\* filterAliasesForList: one iteration of the loop
filterStep(acc, alias, normalizedDomain, searchInput) ==
    IF listSkips(alias) THEN acc
    ELSE IF aliasMatchesDomain(alias, normalizedDomain) THEN addPrimary(acc, alias)
    ELSE IF aliasMatchesSubdomain(alias, normalizedDomain) THEN addRelated(acc, alias)
    ELSE IF aliasMatchesSearch(alias, <<ToLower(TrimSpace(normalizedDomain)),
                                         searchNeedle(searchInput)>>)
    THEN addRelated(acc, alias)
    ELSE acc

RECURSIVE filterLoop(_, _, _, _, _)
filterLoop(acc, aliases, i, normalizedDomain, searchInput) ==
    IF i > Len(aliases) THEN acc
    ELSE filterLoop(filterStep(acc, aliases[i], normalizedDomain, searchInput),
                    aliases, i + 1, normalizedDomain, searchInput)

\* filterAliasesForList returns the two lists
filterResult(acc) == [primary |-> acc.primary, related |-> acc.related]

\* filterAliasesForList: [primary, related]
filterAliasesForList(aliases, normalizedDomain, searchInput) ==
    filterResult(filterLoop([primary |-> <<>>, related |-> <<>>, seen |-> {}],
                            aliases, 1, normalizedDomain, searchInput))

---------------------------------------------------------------------------
(* The client calls of lookup-or-create.                                   *)

\* a plausible slip: only enabled aliases count as existing
GetAliasesEnabledOnly(maskedEmails, domain) ==
    SelectSeq(maskedEmails,
              LAMBDA alias : alias.forDomain = domain /\ alias.state = AliasEnabled)

\* FastmailClient.GetAliases: the filter applied to the fetched list
GetAliases(maskedEmails, domain) ==
    SelectSeq(maskedEmails,
              LAMBDA alias : alias.forDomain = domain /\ alias.state # AliasDeleted)

\* the MaskedEmail/get request of getMaskedEmail
GetRequest == [method |-> "MaskedEmail/get", kind |-> "get"]

\* FastmailClient.CreateAlias: the MaskedEmail/set request it sends
CreateRequest(domain) ==
    [method |-> "MaskedEmail/set", kind |-> "create",
     forDomain |-> domain, description |-> domain]

\* the MaskedEmail/set request of UpdateAliasStatus
UpdateRequest(id, state) ==
    [method |-> "MaskedEmail/set", kind |-> "update", id |-> id, state |-> state]

\* the MaskedEmail/set request of UpdateAliasDescription
DescriptionRequest(id, description) ==
    [method |-> "MaskedEmail/set", kind |-> "describe", id |-> id,
     description |-> description]

---------------------------------------------------------------------------
(* Bounds and input pools.                                                 *)

MaxInitServer == 2   \* records on the server when the model starts
MaxServer == 3       \* records the server holds at most
MaxSelect == 3       \* length of the lists given to selectPreferredAlias
MaxList == 3         \* length of the lists given to filterAliasesForList

\* the sequences over S of length at most n, and those without a repeated element
SeqsUpTo(S, n) == UNION {[1..k -> S] : k \in 0..n}
DistinctSeqsUpTo(S, n) ==
    {q \in SeqsUpTo(S, n) : \A i, j \in 1..Len(q) : i # j => q[i] # q[j]}

NoDescription == [given |-> FALSE, text |-> ""]
\* copied is what the command handed to copyToClipboard, "" when nothing
NoResult == [err |-> "", email |-> "", state |-> "", createdNew |-> FALSE, copied |-> ""]
NoFetch == [status |-> "none", list |-> <<>>]

\* what the user types as identifier, and as optional description
Identifiers ==
    {"example.com", " Example.com/login ", "https://sub.example.com",
     "user@example.com", "  "}
DescriptionArgs == {NoDescription, [given |-> TRUE, text |-> "Shopping account"]}

\* records the remote service may hold; forDomain may be denormalized
ServerPool ==
    {MaskedEmailInfo("a1@fm.com", "https://example.com", "", AliasEnabled, "1"),
     MaskedEmailInfo("a2@fm.com", "https://example.com", "", AliasDeleted, "2"),
     MaskedEmailInfo("a3@fm.com", "https://Example.com/signup", "", AliasPending, "3"),
     MaskedEmailInfo("a4@fm.com", "https://sub.example.com", "", AliasDisabled, "4"),
     MaskedEmailInfo("a5@fm.com", "https://example.com", "", AliasPending, "5"),
     MaskedEmailInfo("a6@fm.com", "https://other.com", "", "mystery", "6")}

\* the record the remote service makes of a create request, its n-th record
CreatedAlias(req, n) ==
    MaskedEmailInfo("new" \o SubSeq(DigitChars, n + 1, n + 1) \o "@fm.com",
                    req.forDomain, req.description, AliasPending,
                    "n" \o SubSeq(DigitChars, n + 1, n + 1))

---------------------------------------------------------------------------
(* The lookup-or-create command: handleAliasLookupOrCreation, one action   *)
(* per stretch of the handler between two replies of the remote service.   *)

Init ==
    /\ op = "input"
    /\ arg \in [identifier : Identifiers, description : DescriptionArgs]
    /\ ret = NoResult
    /\ server \in DistinctSeqsUpTo(ServerPool, MaxInitServer)
    /\ pc = "idle"
    /\ sent = <<>>
    /\ fetched = NoFetch

\* the handler's call of prepareDomainInput
prepared == prepareDomainInput(arg.identifier)

\* prepareDomainInput rejects the identifier: the handler returns the error
LookupRejects ==
    /\ pc = "idle"
    /\ prepared.err # ""
    /\ op' = "lookup"
    /\ ret' = [NoResult EXCEPT !.err = "invalid identifier"]
    /\ pc' = "done"
    /\ UNCHANGED <<arg, server, sent, fetched>>

\* the handler calls GetAliases, which sends the MaskedEmail/get request
LookupStart ==
    /\ pc = "idle"
    /\ prepared.err = ""
    /\ op' = "lookup"
    /\ sent' = Append(sent, GetRequest)
    /\ pc' = "fetching"
    /\ UNCHANGED <<arg, ret, server, fetched>>

\* the fetch fails (transport, HTTP status, JMAP error, malformed response)
FetchFails ==
    /\ pc = "fetching"
    /\ op' = "fetch"
    /\ fetched' = [status |-> "failed", list |-> <<>>]
    /\ ret' = [NoResult EXCEPT !.err = "failed to get aliases"]
    /\ pc' = "done"
    /\ UNCHANGED <<arg, server, sent>>

\* a plausible slip: a description given with an existing alias is written to it
AfterFetchDescribes(domain, aliases, selected) ==
    IF selected = 0
    THEN /\ sent' = Append(sent, CreateRequest(domain))
         /\ pc' = "creating"
         /\ UNCHANGED ret
    ELSE /\ ret' = [err |-> "", email |-> aliases[selected].email,
                    state |-> aliases[selected].state, createdNew |-> FALSE,
                    copied |-> aliases[selected].email]
         /\ pc' = "done"
         /\ sent' = IF arg.description.given
                    THEN Append(sent, DescriptionRequest(aliases[selected].id,
                                                         arg.description.text))
                    ELSE sent

\* the handler after GetAliases returned aliases, of which selected is preferred
AfterFetch(domain, aliases, selected) ==
    IF selected = 0
    THEN /\ sent' = Append(sent, CreateRequest(domain))
         /\ pc' = "creating"
         /\ UNCHANGED ret
    ELSE /\ ret' = [err |-> "", email |-> aliases[selected].email,
                    state |-> aliases[selected].state, createdNew |-> FALSE,
                    copied |-> aliases[selected].email]
         /\ pc' = "done"
         /\ UNCHANGED sent

\* the handler's call of selectPreferredAlias on what GetAliases returned
AfterGetAliases(domain, aliases) ==
    AfterFetch(domain, aliases, selectPreferredAlias(aliases))

\* the fetch returns the list: an alias is selected, or CreateAlias is called
FetchReturns ==
    /\ pc = "fetching"
    /\ op' = "fetch"
    /\ fetched' = [status |-> "ok", list |-> server]
    /\ AfterGetAliases(prepared.normalized, GetAliases(server, prepared.normalized))
    /\ UNCHANGED <<arg, server>>

\* CreateAlias fails
CreateFails ==
    /\ pc = "creating"
    /\ op' = "create"
    /\ ret' = [NoResult EXCEPT !.err = "failed to create alias"]
    /\ pc' = "done"
    /\ UNCHANGED <<arg, server, sent, fetched>>

\* the remote service has created the alias; the handler returns it
Created(created) ==
    /\ server' = Append(server, created)
    /\ ret' = [err |-> "", email |-> created.email, state |-> created.state,
               createdNew |-> TRUE, copied |-> created.email]

\* CreateAlias returns the alias the remote service created
CreateReturns ==
    /\ pc = "creating"
    /\ Len(server) < MaxServer
    /\ Created(CreatedAlias(sent[Len(sent)], Len(server)))
    /\ op' = "create"
    /\ pc' = "done"
    /\ UNCHANGED <<arg, sent, fetched>>

\* the command has ended; the user runs the tool again
NextInvocation ==
    /\ pc = "done"
    /\ op' = "input"
    /\ arg' \in [identifier : Identifiers, description : DescriptionArgs]
    /\ ret' = NoResult
    /\ pc' = "idle"
    /\ sent' = <<>>
    /\ fetched' = NoFetch
    /\ UNCHANGED server

Next ==
    \/ LookupRejects
    \/ LookupStart
    \/ FetchFails
    \/ FetchReturns
    \/ CreateFails
    \/ CreateReturns
    \/ NextInvocation

Spec == Init /\ [][Next]_vars

---------------------------------------------------------------------------
(* selectPreferredAlias as a function: the input is drawn, then applied.   *)

\* the alias states the remote service may report; the last two are unknown here
ReportedStates ==
    {AliasPending, AliasEnabled, AliasDisabled, AliasDeleted, "mystery", ""}

SelectPool ==
    {MaskedEmailInfo(st \o "@fm.com", "https://example.com", "", st, "")
       : st \in ReportedStates}

SelectInit ==
    /\ op = "input"
    /\ arg \in SeqsUpTo(SelectPool, MaxSelect)
    /\ ret = NoResult
    /\ server = <<>>
    /\ pc = "select"
    /\ sent = <<>>
    /\ fetched = NoFetch

ApplySelect ==
    /\ op = "input"
    /\ pc = "select"
    /\ op' = "select"
    /\ ret' = [index |-> selectPreferredAlias(arg), warnings |-> selectWarnings(arg)]
    /\ UNCHANGED <<arg, server, pc, sent, fetched>>

SpecSelect == SelectInit /\ [][ApplySelect]_vars

---------------------------------------------------------------------------
(* filterAliasesForList as a function.                                     *)

ListPool ==
    {MaskedEmailInfo("one@example.com", "https://example.com", "", AliasEnabled, "1"),
     MaskedEmailInfo("sub@example.com", "https://sub.example.com", "", AliasEnabled, "5"),
     MaskedEmailInfo("deleted@example.com", "https://example.com", "", AliasDeleted, "4"),
     MaskedEmailInfo("b1@fm.com", "https://Sub.Example.com/login", "", AliasPending, ""),
     MaskedEmailInfo("b2@fm.com", "", "https://example.com", AliasDisabled, ""),
     MaskedEmailInfo("dup1@fm.com", "https://shop.example.com", "", AliasEnabled, "1"),
     MaskedEmailInfo("dup5@fm.com", "https://other.com", "EXAMPLE shop",
                     "mystery", "5")}

\* the normalized domain and the search text filterAliasesForList is called with
ListQueries ==
    {[target |-> "https://example.com", search |-> " Example "],
     [target |-> "https://sub.example.com", search |-> "DUP5"]}

ListInit ==
    /\ op = "input"
    /\ arg \in [aliases : SeqsUpTo(ListPool, MaxList), query : ListQueries]
    /\ ret = NoResult
    /\ server = <<>>
    /\ pc = "list"
    /\ sent = <<>>
    /\ fetched = NoFetch

ApplyFilter ==
    /\ op = "input"
    /\ pc = "list"
    /\ op' = "filter"
    /\ ret' = filterAliasesForList(arg.aliases, arg.query.target, arg.query.search)
    /\ UNCHANGED <<arg, server, pc, sent, fetched>>

SpecList == ListInit /\ [][ApplyFilter]_vars

---------------------------------------------------------------------------
(* The three match predicates as functions.                                *)

\* texts a forDomain, a description or a target may hold, each with the origin
\* a reader takes it to name (scheme and host empty: it names none)
KnownOrigins ==
    {[text |-> "", scheme |-> "", host |-> ""],
     [text |-> "  ", scheme |-> "", host |-> ""],
     [text |-> "Example login", scheme |-> "", host |-> ""],
     [text |-> "Shopping account", scheme |-> "", host |-> ""],
     [text |-> "https://example.com", scheme |-> "https", host |-> "example.com"],
     [text |-> "https://Example.com/signup", scheme |-> "https", host |-> "example.com"],
     [text |-> "HTTPS://EXAMPLE.COM:443/", scheme |-> "https", host |-> "example.com"],
     [text |-> "example.com", scheme |-> "https", host |-> "example.com"],
     [text |-> "https://example.com.", scheme |-> "https", host |-> "example.com"],
     [text |-> "http://example.com", scheme |-> "http", host |-> "example.com"],
     [text |-> "https://sub.example.com", scheme |-> "https", host |-> "sub.example.com"],
     [text |-> "https://Sub.Example.com/", scheme |-> "https", host |-> "sub.example.com"],
     [text |-> "https://user@Sub.Example.com:8443/login?next=1#top",
      scheme |-> "https", host |-> "sub.example.com"],
     [text |-> "https://other.com", scheme |-> "https", host |-> "other.com"],
     [text |-> "https://notexample.com", scheme |-> "https", host |-> "notexample.com"],
     [text |-> "https://com", scheme |-> "https", host |-> "com"]}

MatchForDomains == {k.text : k \in KnownOrigins} \ {"Shopping account"}
MatchDescriptions ==
    {"", "https://example.com", "https://Sub.Example.com/", "Shopping account",
     "Example login"}
MatchTargets == {"https://example.com", "https://sub.example.com", "http://example.com"}
MatchNeedles ==
    {<<"shopping">>, <<"Shopping">>, <<"alias-id">>, <<"nomatch">>, <<"", "  ">>,
     <<" ", " example ">>}

MatchInit ==
    /\ op = "input"
    /\ arg \in [alias : {MaskedEmailInfo("user@fm.com", fd, d, AliasEnabled, "alias-id")
                           : fd \in MatchForDomains, d \in MatchDescriptions},
                target : MatchTargets,
                needles : MatchNeedles]
    /\ ret = NoResult
    /\ server = <<>>
    /\ pc = "match"
    /\ sent = <<>>
    /\ fetched = NoFetch

ApplyMatchesDomain ==
    /\ op = "input"
    /\ pc = "match"
    /\ op' = "matchesDomain"
    /\ ret' = aliasMatchesDomain(arg.alias, arg.target)
    /\ UNCHANGED <<arg, server, pc, sent, fetched>>

ApplyMatchesSubdomain ==
    /\ op = "input"
    /\ pc = "match"
    /\ op' = "matchesSubdomain"
    /\ ret' = aliasMatchesSubdomain(arg.alias, arg.target)
    /\ UNCHANGED <<arg, server, pc, sent, fetched>>

ApplyMatchesSearch ==
    /\ op = "input"
    /\ pc = "match"
    /\ op' = "matchesSearch"
    /\ ret' = aliasMatchesSearch(arg.alias, arg.needles)
    /\ UNCHANGED <<arg, server, pc, sent, fetched>>

MatchNext == ApplyMatchesDomain \/ ApplyMatchesSubdomain \/ ApplyMatchesSearch

SpecMatch == MatchInit /\ [][MatchNext]_vars

---------------------------------------------------------------------------
(* The canonicalizer and the classifier as functions.                      *)

\* the parts an identifier is written from, each with what it stands for
SchemeParts ==
    {[text |-> "", is |-> "https"],
     [text |-> "https://", is |-> "https"],
     [text |-> "HTTP://", is |-> "http"],
     [text |-> "ftp://", is |-> "ftp"]}
HostParts ==
    {[text |-> "example.com", is |-> "example.com"],
     [text |-> "Sub.Example.COM", is |-> "sub.example.com"],
     [text |-> "example.com.", is |-> "example.com"],
     [text |-> "example.com..", is |-> "example.com."]}
PadParts == {"", " "}
UserParts == {"", "user@"}
PortParts == {"", ":443"}
TailParts == {"", "/", "/Login?next=1#top"}

\* identifiers written as [pad] [scheme://] [user@] host [:port] [tail] [pad],
\* with the scheme and the host they name
WrittenInputs ==
    {[text |-> pad \o s.text \o u \o h.text \o p \o t \o pad,
      scheme |-> s.is, host |-> h.is, fails |-> ""] :
        pad \in PadParts, s \in SchemeParts, u \in UserParts, h \in HostParts,
        p \in PortParts, t \in TailParts}

\* identifiers that name no origin, with the reason
RejectedInputs ==
    {[text |-> "", scheme |-> "", host |-> "", fails |-> "EmptyInput"],
     [text |-> " \t ", scheme |-> "", host |-> "", fails |-> "EmptyInput"],
     [text |-> "Exa Mple.com", scheme |-> "", host |-> "", fails |-> "ParseFailure"],
     [text |-> "exa mple.com/", scheme |-> "", host |-> "", fails |-> "ParseFailure"],
     [text |-> "example.com:port", scheme |-> "", host |-> "", fails |-> "ParseFailure"],
     [text |-> "://example.com", scheme |-> "", host |-> "", fails |-> "ParseFailure"],
     [text |-> "user@exam\nple.com", scheme |-> "", host |-> "", fails |-> "ParseFailure"],
     [text |-> "https://", scheme |-> "", host |-> "", fails |-> "MissingHost"],
     [text |-> "https:///login", scheme |-> "", host |-> "", fails |-> "MissingHost"],
     [text |-> "/login", scheme |-> "", host |-> "", fails |-> "MissingHost"],
     [text |-> "example.com/?u=http://x", scheme |-> "", host |-> "", fails |-> "MissingHost"],
     [text |-> "mailto:user@example.com", scheme |-> "https", host |-> "example.com",
      fails |-> ""],
     [text |-> "a@b@example.com", scheme |-> "https", host |-> "example.com", fails |-> ""]}

CanonInputs == WrittenInputs \cup RejectedInputs

\* the second argument of domainsEqual
CanonOthers ==
    {[text |-> "https://example.com", scheme |-> "https", host |-> "example.com",
      fails |-> ""],
     [text |-> "http://example.com/", scheme |-> "http", host |-> "example.com",
      fails |-> ""],
     [text |-> "sub.example.com:8443", scheme |-> "https", host |-> "sub.example.com",
      fails |-> ""],
     [text |-> "https://Example.com./", scheme |-> "https", host |-> "example.com",
      fails |-> ""],
     [text |-> "exa mple.com", scheme |-> "", host |-> "", fails |-> "ParseFailure"]}

CanonInit ==
    /\ op = "input"
    /\ arg \in [a : CanonInputs, b : CanonOthers]
    /\ ret = NoResult
    /\ server = <<>>
    /\ pc = "canon"
    /\ sent = <<>>
    /\ fetched = NoFetch

ApplyNormalize ==
    /\ op = "input"
    /\ pc = "canon"
    /\ op' = "normalize"
    /\ ret' = normalizeOrigin(arg.a.text)
    /\ UNCHANGED <<arg, server, pc, sent, fetched>>

\* a caller normalizes what normalizeOrigin returned
ApplyNormalizeAgain ==
    /\ op = "normalize"
    /\ pc = "canon"
    /\ ret.err = ""
    /\ op' = "renormalize"
    /\ ret' = [first |-> ret, second |-> normalizeOrigin(ret.value)]
    /\ UNCHANGED <<arg, server, pc, sent, fetched>>

ApplyDomainsEqual ==
    /\ op = "input"
    /\ pc = "canon"
    /\ op' = "domainsEqual"
    /\ ret' = domainsEqual(arg.a.text, arg.b.text)
    /\ UNCHANGED <<arg, server, pc, sent, fetched>>

ApplyPrepareDomainInput ==
    /\ op = "input"
    /\ pc = "canon"
    /\ op' = "prepareDomainInput"
    /\ ret' = prepareDomainInput(arg.a.text)
    /\ UNCHANGED <<arg, server, pc, sent, fetched>>

ApplyNormalizeEmailInput ==
    /\ op = "input"
    /\ pc = "canon"
    /\ op' = "normalizeEmailInput"
    /\ ret' = normalizeEmailInput(arg.a.text)
    /\ UNCHANGED <<arg, server, pc, sent, fetched>>

\* the classifier on the trimmed identifier, as its two callers apply it
ApplyLooksLikeEmail ==
    /\ op = "input"
    /\ pc = "canon"
    /\ op' = "looksLikeEmail"
    /\ ret' = looksLikeEmail(TrimSpace(arg.a.text))
    /\ UNCHANGED <<arg, server, pc, sent, fetched>>

\* runMaskedFastmail hands the identifier to prepareDomainInput (lookup, list)
\* or to normalizeEmailInput (state update, description update): both results
ApplyClassifiers ==
    /\ op = "input"
    /\ pc = "canon"
    /\ op' = "classifiers"
    /\ ret' = [domain |-> prepareDomainInput(arg.a.text),
               email |-> normalizeEmailInput(arg.a.text)]
    /\ UNCHANGED <<arg, server, pc, sent, fetched>>

CanonNext ==
    \/ ApplyNormalize
    \/ ApplyNormalizeAgain
    \/ ApplyDomainsEqual
    \/ ApplyPrepareDomainInput
    \/ ApplyNormalizeEmailInput
    \/ ApplyLooksLikeEmail
    \/ ApplyClassifiers

SpecCanon == CanonInit /\ [][CanonNext]_vars

---------------------------------------------------------------------------
(* The JMAP envelope: json.RawMessage values and their decoding.           *)

\* a json.RawMessage: its JSON kind, its text, and for an object its members
\* (absent: the zero value a Go struct field keeps)
JString(text) ==
    [json |-> "string", raw |-> text, type |-> "", message |-> "", list |-> <<>>,
     created |-> "", updated |-> {}]
JNumber(text) ==
    [json |-> "number", raw |-> text, type |-> "", message |-> "", list |-> <<>>,
     created |-> "", updated |-> {}]
JArray(text) ==
    [json |-> "array", raw |-> text, type |-> "", message |-> "", list |-> <<>>,
     created |-> "", updated |-> {}]
JObject(text, type, message, list, created, updated) ==
    [json |-> "object", raw |-> text, type |-> type, message |-> message,
     list |-> list, created |-> created, updated |-> updated]

JNull ==
    [json |-> "null", raw |-> "null", type |-> "", message |-> "", list |-> <<>>,
     created |-> "", updated |-> {}]

\* json.Unmarshal into a string: [err, value]
unmarshalString(raw) ==
    IF raw.json = "string" THEN [err |-> FALSE, value |-> raw.raw]
    ELSE IF raw.json = "null" THEN [err |-> FALSE, value |-> ""]
    ELSE [err |-> TRUE, value |-> ""]

\* json.Unmarshal into a struct: it fails unless the value is an object or null
unmarshalStructFails(raw) == raw.json \notin {"object", "null"}

\* MaskedEmailResponse
MaskedEmailResponse(methodResponses, methodErrors) ==
    [methodResponses |-> methodResponses, methodErrors |-> methodErrors]

jmapErrorSuffixLen == 6

\* an error of the envelope layer: its kind, and what it carries
EnvelopeError(kind, type, message, raw) ==
    [err |-> kind, type |-> type, message |-> message, raw |-> raw]
EnvelopeOK == EnvelopeError("", "", "", "")

\* validateJMAPResponse: the method name has the error suffix
hasErrorSuffix(methodName) ==
    /\ Len(methodName) > jmapErrorSuffixLen
    /\ SubSeq(methodName, Len(methodName) - jmapErrorSuffixLen + 1, Len(methodName))
         = "/error"

\* validateJMAPResponse: the error returned for an entry named as an error
methodError(methodResponse, methodName) ==
    IF Len(methodResponse) > 1
    THEN IF ~unmarshalStructFails(methodResponse[2])
         THEN EnvelopeError("MethodError", methodResponse[2].type,
                            methodResponse[2].message, "")
         ELSE EnvelopeError("MethodError", "", "", methodResponse[2].raw)
    ELSE EnvelopeError("MethodError", "", "", "")

\* validateJMAPResponse: one entry, its method name unmarshalled
validateNamed(methodResponse, name) ==
    IF name.err THEN EnvelopeError("MalformedEntry", "", "", "")
    ELSE IF hasErrorSuffix(name.value) THEN methodError(methodResponse, name.value)
    ELSE IF Len(methodResponse) < 2 THEN EnvelopeError("MalformedEntry", "", "", "")
    ELSE EnvelopeOK

\* validateJMAPResponse: one iteration of the loop
validateEntry(methodResponse) ==
    IF Len(methodResponse) = 0 THEN EnvelopeError("MalformedEntry", "", "", "")
    ELSE validateNamed(methodResponse, unmarshalString(methodResponse[1]))

\* validateJMAPResponse: the loop, which returns at the first entry in error
RECURSIVE validateLoop(_, _)
validateFrom(methodResponses, i, outcome) ==
    IF outcome.err # "" THEN outcome ELSE validateLoop(methodResponses, i + 1)
validateLoop(methodResponses, i) ==
    IF i > Len(methodResponses) THEN EnvelopeOK
    ELSE validateFrom(methodResponses, i, validateEntry(methodResponses[i]))

\* validateJMAPResponse
validateJMAPResponse(response) ==
    IF Len(response.methodErrors) > 0
    THEN EnvelopeError("ProtocolError", "", "", response.methodErrors)
    ELSE IF Len(response.methodResponses) = 0
    THEN EnvelopeError("EmptyResponse", "", "", "")
    ELSE validateLoop(response.methodResponses, 1)

\* validateMethodResponse; index counts from 0 as in the code, and a negative
\* one reaches the index expression MethodResponses[index], which panics
validateMethodResponse(response, index, minElements) ==
    IF Len(response.methodResponses) = 0
    THEN EnvelopeError("IndexOutOfRange", "", "", "")
    ELSE IF index >= Len(response.methodResponses)
    THEN EnvelopeError("IndexOutOfRange", "", "", "")
    ELSE IF index < 0 THEN EnvelopeError("panic", "", "", "")
    ELSE IF Len(response.methodResponses[index + 1]) < minElements
    THEN EnvelopeError("TooFewElements", "", "", "")
    ELSE EnvelopeOK

---------------------------------------------------------------------------
(* Building the request envelope: buildRequest and json.Marshal.           *)

\* Go values handed to json.Marshal: a string, nil, a struct with its fields
\* in order (each with its JSON name, its omitempty tag and whether its value
\* is empty), or a value json.Marshal has no encoding for (channel, function)
GoString(text) == [go |-> "string", text |-> text, fields |-> <<>>]
GoNil == [go |-> "nil", text |-> "", fields |-> <<>>]
GoStruct(fields) == [go |-> "struct", text |-> "", fields |-> fields]
GoChan == [go |-> "chan", text |-> "", fields |-> <<>>]
GoFunc == [go |-> "func", text |-> "", fields |-> <<>>]

GoField(name, omitempty, empty) == [name |-> name, omitempty |-> omitempty, empty |-> empty]

\* json.Marshal of a struct: the names of the fields it writes, in order
RECURSIVE marshalFields(_, _, _)
marshalFields(fields, i, text) ==
    IF i > Len(fields) THEN text
    ELSE IF fields[i].omitempty /\ fields[i].empty THEN marshalFields(fields, i + 1, text)
    ELSE marshalFields(fields, i + 1,
                       text \o (IF text = "" THEN "" ELSE ",") \o fields[i].name)

\* json.Marshal: [err, value]
marshal(v) ==
    IF v.go \in {"chan", "func"} THEN [err |-> TRUE, value |-> JNull]
    ELSE IF v.go = "nil" THEN [err |-> FALSE, value |-> JNull]
    ELSE IF v.go = "string" THEN [err |-> FALSE, value |-> JString(v.text)]
    ELSE [err |-> FALSE,
          value |-> JObject("{" \o marshalFields(v.fields, 1, "") \o "}",
                            "", "", <<>>, "", {})]

\* methodCall
methodCall(name, arguments, clientID) ==
    [name |-> name, arguments |-> arguments, clientID |-> clientID]

\* MaskedEmailRequest
MaskedEmailRequest(using, methodCalls) ==
    [err |-> "", using |-> using, methodCalls |-> methodCalls]

\* buildRequest returns no envelope with its error
BuildError(kind) == [err |-> kind, using |-> <<>>, methodCalls |-> <<>>]

\* a plausible slip: the calls are written last first
buildDoneReversed(methodCalls) ==
    MaskedEmailRequest(<<"urn:ietf:params:jmap:core",
                         "https://www.fastmail.com/dev/maskedemail">>,
                       [i \in 1..Len(methodCalls) |->
                            methodCalls[Len(methodCalls) + 1 - i]])

\* buildRequest after the loop
buildDone(methodCalls) ==
    MaskedEmailRequest(<<"urn:ietf:params:jmap:core",
                         "https://www.fastmail.com/dev/maskedemail">>,
                       methodCalls)

\* buildRequest: the loop over the calls; it returns at the first call one of
\* whose three parts does not marshal
RECURSIVE buildLoop(_, _, _)
buildCall(calls, i, methodCalls, name, args, clientID) ==
    IF name.err THEN BuildError("MarshalName")
    ELSE IF args.err THEN BuildError("MarshalArguments")
    ELSE IF clientID.err THEN BuildError("MarshalClientID")
    ELSE buildLoop(calls, i + 1,
                   Append(methodCalls, <<name.value, args.value, clientID.value>>))
buildLoop(calls, i, methodCalls) ==
    IF i > Len(calls) THEN buildDone(methodCalls)
    ELSE buildCall(calls, i, methodCalls, marshal(GoString(calls[i].name)),
                   marshal(calls[i].arguments), marshal(calls[i].clientID))

\* FastmailClient.buildRequest
buildRequest(calls) == buildLoop(calls, 1, <<>>)

---------------------------------------------------------------------------
(* The client operations over a reply of the server.                       *)

\* a step an operation takes over the parsed response
ClientStep(kind, index, element, err) ==
    [kind |-> kind, index |-> index, element |-> element, err |-> err]

\* the outcome of the part the three operations share: [err, payload, steps]
CallOutcome(err, payload, steps) == [err |-> err, payload |-> payload, steps |-> steps]

\* a plausible slip: the parsed response is returned without validateJMAPResponse
sendRequestUnvalidated(reply) ==
    IF reply.transport # "ok" THEN [err |-> "TransportError", steps |-> <<>>]
    ELSE [err |-> "", steps |-> <<>>]

\* sendRequest, the response parsed and validated
sendValidated(v) ==
    [err |-> v.err, steps |-> <<ClientStep("validateJMAPResponse", 0, 0, v.err)>>]

\* sendRequest: [err, steps]; a reply that is no parsed response (transport
\* error, HTTP status, empty or malformed body) is an error before validation
sendRequest(reply) ==
    IF reply.transport # "ok" THEN [err |-> "TransportError", steps |-> <<>>]
    ELSE sendValidated(validateJMAPResponse(reply.response))

\* response.MethodResponses[0][1]: the index expression panics out of range
callRead(methodResponses, steps) ==
    IF Len(methodResponses) > 0 /\ Len(methodResponses[1]) > 1
    THEN CallOutcome("", methodResponses[1][2], Append(steps, ClientStep("access", 0, 1, "")))
    ELSE CallOutcome("panic", JNull, Append(steps, ClientStep("access", 0, 1, "panic")))

\* validateMethodResponse(response, 0, 2) done
callExpected(response, steps, e) ==
    IF e.err # ""
    THEN CallOutcome(e.err, JNull, Append(steps, ClientStep("validateMethodResponse", 0, 2, e.err)))
    ELSE callRead(response.methodResponses,
                  Append(steps, ClientStep("validateMethodResponse", 0, 2, "")))

\* sendRequest done
callSent(reply, s) ==
    IF s.err # "" THEN CallOutcome(s.err, JNull, s.steps)
    ELSE callExpected(reply.response, s.steps,
                      validateMethodResponse(reply.response, 0, 2))

\* what getMaskedEmail, CreateAlias and UpdateAliasStatus do alike: send the
\* request, check entry 0 for 2 elements, take MethodResponses[0][1]
callMethod(reply) == callSent(reply, sendRequest(reply))

ClientResult(err, value, steps) == [err |-> err, value |-> value, steps |-> steps]

\* getMaskedEmail from the payload on: the list of the response
getDecoded(c) ==
    IF c.err # "" THEN ClientResult(c.err, <<>>, c.steps)
    ELSE IF unmarshalStructFails(c.payload) THEN ClientResult("DecodeFailure", <<>>, c.steps)
    ELSE ClientResult("", c.payload.list, c.steps)

\* getMaskedEmail
getMaskedEmail(reply) == getDecoded(callMethod(reply))

\* CreateAlias from the payload on: created.MaskedEmail, its email
createDecoded(c) ==
    IF c.err # "" THEN ClientResult(c.err, "", c.steps)
    ELSE IF unmarshalStructFails(c.payload) THEN ClientResult("DecodeFailure", "", c.steps)
    ELSE ClientResult("", c.payload.created, c.steps)

\* CreateAlias
CreateAlias(reply) == createDecoded(callMethod(reply))

\* UpdateAliasStatus from the payload on: the update must be confirmed
updateDecoded(alias, c) ==
    IF c.err # "" THEN ClientResult(c.err, "", c.steps)
    ELSE IF unmarshalStructFails(c.payload) THEN ClientResult("DecodeFailure", "", c.steps)
    ELSE IF alias.id \notin c.payload.updated THEN ClientResult("NotConfirmed", "", c.steps)
    ELSE ClientResult("", "Success", c.steps)

\* UpdateAliasStatus
UpdateAliasStatus(alias, state, reply) ==
    IF state = alias.state THEN ClientResult("AlreadyInState", "", <<>>)
    ELSE updateDecoded(alias, callMethod(reply))

---------------------------------------------------------------------------
(* The envelope validators as functions.                                   *)

MaxEntries == 2

\* first elements of a response entry: method names, and a value that is no string
EntryNames ==
    {JString("MaskedEmail/get"), JString("MaskedEmail/get/error"), JString("/error"),
     JNumber("7")}

\* second elements: an error object, a result object, a value that is no object
ErrorPayload == JObject("{type,message}", "invalidArguments", "bad id", <<>>, "", {})
ListPayload ==
    JObject("{list}", "", "",
            <<MaskedEmailInfo("a1@fm.com", "https://example.com", "", AliasEnabled, "1")>>,
            "", {})
EntryPayloads == {ErrorPayload, ListPayload, JArray("[1]")}

\* response entries of 0, 1, 2 and 3 elements
ValidateEntries ==
    {<<>>}
      \cup {<<n>> : n \in EntryNames}
      \cup {<<n, p>> : n \in EntryNames, p \in EntryPayloads}
      \cup {<<JString("MaskedEmail/get"), ListPayload, JString("c0")>>}

ValidateInit ==
    /\ op = "input"
    /\ arg \in [methodResponses : SeqsUpTo(ValidateEntries, MaxEntries),
                methodErrors : {<<>>, <<"serverFail">>}]
    /\ ret = NoResult
    /\ server = <<>>
    /\ pc = "validate"
    /\ sent = <<>>
    /\ fetched = NoFetch

ApplyValidateJMAPResponse ==
    /\ op = "input"
    /\ pc = "validate"
    /\ op' = "validateJMAPResponse"
    /\ ret' = validateJMAPResponse(arg)
    /\ UNCHANGED <<arg, server, pc, sent, fetched>>

SpecValidate == ValidateInit /\ [][ApplyValidateJMAPResponse]_vars

\* entries told apart by their number of elements only
ExpectEntries ==
    {<<>>,
     <<JString("MaskedEmail/get")>>,
     <<JString("MaskedEmail/get"), ListPayload>>,
     <<JString("MaskedEmail/get"), ListPayload, JString("c0")>>}

ExpectInit ==
    /\ op = "input"
    /\ arg \in [response : {MaskedEmailResponse(r, <<>>) :
                               r \in SeqsUpTo(ExpectEntries, MaxEntries)},
                index : -1..MaxEntries,
                minElements : {0, 1, 2, 3}]
    /\ ret = NoResult
    /\ server = <<>>
    /\ pc = "expect"
    /\ sent = <<>>
    /\ fetched = NoFetch

ApplyValidateMethodResponse ==
    /\ op = "input"
    /\ pc = "expect"
    /\ op' = "validateMethodResponse"
    /\ ret' = validateMethodResponse(arg.response, arg.index, arg.minElements)
    /\ UNCHANGED <<arg, server, pc, sent, fetched>>

SpecExpect == ExpectInit /\ [][ApplyValidateMethodResponse]_vars

---------------------------------------------------------------------------
(* buildRequest as a function.                                             *)

MaxCalls == 2   \* length of the lists of calls given to buildRequest

\* the arguments of getMaskedEmail and of setMaskedEmail (create only, update
\* only), nil, and a channel; each with the JSON it is to be written as
BuildArguments ==
    {[value |-> GoStruct(<<GoField("accountId", FALSE, FALSE),
                           GoField("properties", FALSE, FALSE)>>),
      json |-> JObject("{accountId,properties}", "", "", <<>>, "", {}),
      fails |-> FALSE],
     [value |-> GoStruct(<<GoField("create", TRUE, FALSE),
                           GoField("update", TRUE, TRUE),
                           GoField("accountId", FALSE, FALSE)>>),
      json |-> JObject("{create,accountId}", "", "", <<>>, "", {}),
      fails |-> FALSE],
     [value |-> GoStruct(<<GoField("create", TRUE, TRUE),
                           GoField("update", TRUE, FALSE),
                           GoField("accountId", FALSE, FALSE)>>),
      json |-> JObject("{update,accountId}", "", "", <<>>, "", {}),
      fails |-> FALSE],
     [value |-> GoNil, json |-> JNull, fails |-> FALSE],
     [value |-> GoChan, json |-> JNull, fails |-> TRUE]}

\* correlation tokens: nil (what the client passes), a string, a function
BuildClientIDs ==
    {[value |-> GoNil, json |-> JNull, fails |-> FALSE],
     [value |-> GoString("c1"), json |-> JString("c1"), fails |-> FALSE],
     [value |-> GoFunc, json |-> JNull, fails |-> TRUE]}

BuildCalls ==
    [name : {"MaskedEmail/get", "MaskedEmail/set"},
     arguments : BuildArguments, clientID : BuildClientIDs]

BuildInit ==
    /\ op = "input"
    /\ arg \in SeqsUpTo(BuildCalls, MaxCalls)
    /\ ret = NoResult
    /\ server = <<>>
    /\ pc = "build"
    /\ sent = <<>>
    /\ fetched = NoFetch

ApplyBuildRequest ==
    /\ op = "input"
    /\ pc = "build"
    /\ op' = "buildRequest"
    /\ ret' = buildRequest([i \in 1..Len(arg) |->
                               methodCall(arg[i].name, arg[i].arguments.value,
                                          arg[i].clientID.value)])
    /\ UNCHANGED <<arg, server, pc, sent, fetched>>

SpecBuild == BuildInit /\ [][ApplyBuildRequest]_vars

---------------------------------------------------------------------------
(* The client operations, over every reply.                                *)

CreatedPayload == JObject("{created}", "", "", <<>>, "new@fm.com", {})
UpdatedPayload == JObject("{updated}", "", "", <<>>, "", {"1"})
EmptyPayload == JObject("{}", "", "", <<>>, "", {})

ClientEntries ==
    {<<>>,
     <<JString("MaskedEmail/set")>>,
     <<JString("MaskedEmail/set/error"), ErrorPayload, JString("c0")>>,
     <<JString("/error"), ErrorPayload>>,
     <<JString("MaskedEmail/get"), ListPayload, JString("c0")>>,
     <<JString("MaskedEmail/set"), CreatedPayload, JString("c0")>>,
     <<JString("MaskedEmail/set"), UpdatedPayload, JString("c0")>>,
     <<JString("MaskedEmail/set"), EmptyPayload>>,
     <<JString("MaskedEmail/get"), JArray("[1]")>>,
     <<JNumber("7"), ListPayload>>}

\* what comes back for the request: no parsed response, or a parsed one
ClientReplies ==
    {[transport |-> "failed", response |-> MaskedEmailResponse(<<>>, <<>>)]}
      \cup {[transport |-> "ok", response |-> MaskedEmailResponse(r, e)] :
               r \in SeqsUpTo(ClientEntries, MaxEntries),
               e \in {<<>>, <<"serverFail">>}}

UpdatedAlias == MaskedEmailInfo("a1@fm.com", "https://example.com", "", AliasEnabled, "1")

ClientInit ==
    /\ op = "input"
    /\ arg \in [reply : ClientReplies, alias : {UpdatedAlias},
                state : {AliasEnabled, AliasDisabled}]
    /\ ret = NoResult
    /\ server = <<>>
    /\ pc = "client"
    /\ sent = <<>>
    /\ fetched = NoFetch

ApplyGetMaskedEmail ==
    /\ op = "input"
    /\ pc = "client"
    /\ op' = "getMaskedEmail"
    /\ ret' = getMaskedEmail(arg.reply)
    /\ UNCHANGED <<arg, server, pc, sent, fetched>>

ApplyCreateAlias ==
    /\ op = "input"
    /\ pc = "client"
    /\ op' = "CreateAlias"
    /\ ret' = CreateAlias(arg.reply)
    /\ UNCHANGED <<arg, server, pc, sent, fetched>>

ApplyUpdateAliasStatus ==
    /\ op = "input"
    /\ pc = "client"
    /\ op' = "UpdateAliasStatus"
    /\ ret' = UpdateAliasStatus(arg.alias, arg.state, arg.reply)
    /\ UNCHANGED <<arg, server, pc, sent, fetched>>

ClientNext == ApplyGetMaskedEmail \/ ApplyCreateAlias \/ ApplyUpdateAliasStatus

SpecClient == ClientInit /\ [][ClientNext]_vars

---------------------------------------------------------------------------
(* The commands of runMaskedFastmail over the remote service: the state    *)
(* update, the listing and the description update beside lookup-or-create. *)

MaxCmdServer == 2    \* records on the server when a command starts

NoAlias == MaskedEmailInfo("", "", "", "", "")

\* GetAliasByEmail: the first fetched alias with the email
RECURSIVE findByEmail(_, _, _)
findByEmail(aliases, i, email) ==
    IF i > Len(aliases) THEN [err |-> "AliasNotFound", alias |-> NoAlias]
    ELSE IF aliases[i].email = email THEN [err |-> "", alias |-> aliases[i]]
    ELSE findByEmail(aliases, i + 1, email)

\* GetAliasByEmail over the result of getMaskedEmail: [err, alias]
GetAliasByEmail(fetch, email) ==
    IF fetch.err # "" THEN [err |-> fetch.err, alias |-> NoAlias]
    ELSE findByEmail(fetch.value, 1, email)

\* FetchAllAliases: every alias with all its properties, by one MaskedEmail/get
FetchAllAliases(reply) == getMaskedEmail(reply)

\* UpdateAliasDescription: as UpdateAliasStatus, the update must be confirmed
UpdateAliasDescription(alias, description, reply) ==
    updateDecoded(alias, callMethod(reply))

\* a plausible slip: the request is sent whatever state the alias is in
updateRequestUnchecked(alias, state) ==
    [err |-> "", request |-> <<UpdateRequest(alias.id, state)>>]

\* UpdateAliasStatus up to its request: [err, request], request holding the
\* request to send, if any
updateRequest(alias, state) ==
    IF state = alias.state THEN [err |-> "AlreadyInState", request |-> <<>>]
    ELSE [err |-> "", request |-> <<UpdateRequest(alias.id, state)>>]

\* a plausible slip: the error of GetAliasByEmail is not looked at
stateUpdateRequestUnchecked(found, state) == updateRequest(found.alias, state)

\* handleStateUpdate from the result of GetAliasByEmail on
stateUpdateRequest(found, state) ==
    IF found.err # "" THEN [err |-> found.err, request |-> <<>>]
    ELSE updateRequest(found.alias, state)

\* a plausible slip: the description is written whether it differs or not
descriptionRequestAlways(found, newDescription) ==
    IF found.err # "" THEN [err |-> found.err, request |-> <<>>]
    ELSE [err |-> "", request |-> <<DescriptionRequest(found.alias.id, newDescription)>>]

\* handleDescriptionUpdate from the result of GetAliasByEmail on
descriptionRequest(found, newDescription) ==
    IF found.err # "" THEN [err |-> found.err, request |-> <<>>]
    ELSE IF found.alias.description = newDescription THEN [err |-> "", request |-> <<>>]
    ELSE [err |-> "", request |-> <<DescriptionRequest(found.alias.id, newDescription)>>]

\* handleStateUpdate: the state the flags ask for
newStateOf(flags) ==
    IF "enable" \in flags THEN AliasEnabled
    ELSE IF "disable" \in flags THEN AliasDisabled
    ELSE AliasDeleted

\* runMaskedFastmail: the handler the flags select
handlerOf(flags) ==
    IF "set-description" \in flags THEN "describe"
    ELSE IF flags \cap {"enable", "disable", "delete"} # {} THEN "update"
    ELSE IF "list" \in flags THEN "list"
    ELSE "idle"

\* a plausible slip: the listing ends as lookup-or-create does, by copying
listDoneCopies(split) ==
    [err |-> "", primary |-> split.primary, related |-> split.related,
     copied |-> IF Len(split.primary) > 0 THEN split.primary[1].email ELSE ""]

\* handleAliasList from the two lists on: they are printed
listDone(split) ==
    [err |-> "", primary |-> split.primary, related |-> split.related, copied |-> ""]

\* handleAliasList from the result of FetchAllAliases on
listResult(fetch, p) ==
    IF fetch.err # ""
    THEN [err |-> fetch.err, primary |-> <<>>, related |-> <<>>, copied |-> ""]
    ELSE listDone(filterAliasesForList(fetch.value, p.normalized, p.display))

\* what a handler keeps of a fetch
fetchOutcome(fetch) ==
    IF fetch.err # "" THEN [status |-> "failed", list |-> <<>>]
    ELSE [status |-> "ok", list |-> fetch.value]

\* the remote service applies a MaskedEmail/set update to the record of the id
applyUpdate(records, req) ==
    [i \in 1..Len(records) |->
        IF records[i].id # req.id THEN records[i]
        ELSE IF req.kind = "update" THEN [records[i] EXCEPT !.state = req.state]
        ELSE [records[i] EXCEPT !.description = req.description]]

\* what may come back for a MaskedEmail/get: no response (connection failure,
\* timeout, HTTP status outside 2xx), or the records
FetchReplies(records) ==
    {[transport |-> t, response |-> MaskedEmailResponse(<<>>, <<>>), applied |-> FALSE] :
        t \in {"failed", "timeout", "http500"}}
      \cup {[transport |-> "ok", applied |-> FALSE,
              response |-> MaskedEmailResponse(
                  <<<<JString("MaskedEmail/get"),
                      JObject("{list}", "", "", records, "", {}), JString("c0")>>>>,
                  <<>>)]}

\* what may come back for a MaskedEmail/set update of the id: no response, the
\* update confirmed, the update not made, a method error
SetReplies(id) ==
    {[transport |-> t, response |-> MaskedEmailResponse(<<>>, <<>>), applied |-> FALSE] :
        t \in {"failed", "timeout", "http500"}}
      \cup {[transport |-> "ok", applied |-> TRUE,
              response |-> MaskedEmailResponse(
                  <<<<JString("MaskedEmail/set"),
                      JObject("{updated}", "", "", <<>>, "", {id}), JString("c0")>>>>,
                  <<>>)],
             [transport |-> "ok", applied |-> FALSE,
              response |-> MaskedEmailResponse(
                  <<<<JString("MaskedEmail/set"), EmptyPayload, JString("c0")>>>>, <<>>)],
             [transport |-> "ok", applied |-> FALSE,
              response |-> MaskedEmailResponse(
                  <<<<JString("MaskedEmail/set/error"), ErrorPayload, JString("c0")>>>>,
                  <<>>)]}

\* records the remote service may hold when a command starts
CmdServerPool ==
    {MaskedEmailInfo("a1@fm.com", "https://example.com", "Bank", AliasEnabled, "1"),
     MaskedEmailInfo("a2@fm.com", "https://example.com", "", AliasDeleted, "2"),
     MaskedEmailInfo("a4@fm.com", "https://sub.example.com", "", AliasDisabled, "4"),
     MaskedEmailInfo("a5@fm.com", "https://Example.com/signup", "", AliasPending, "5")}

\* identifiers given with a flag, and the flags
CmdIdentifiers == {"a1@fm.com", " a2@fm.com ", "nobody@fm.com", "example.com"}
StateFlags == {{"enable"}, {"disable"}, {"delete"}, {"enable", "delete"}}
DescriptionFlags == {{"set-description"}, {"set-description", "delete"}}

\* command lines: lookup-or-create, flagged commands, and a flag with a
\* positional description
Commands ==
    [identifier : Identifiers, description : DescriptionArgs, flags : {{}},
     newDescription : {""}]
      \cup [identifier : CmdIdentifiers, description : {NoDescription},
             flags : StateFlags \cup {{"list"}}, newDescription : {""}]
      \cup [identifier : CmdIdentifiers, description : {NoDescription},
             flags : DescriptionFlags, newDescription : {"", "Bank"}]
      \cup [identifier : {"a1@fm.com"},
             description : DescriptionArgs \ {NoDescription},
             flags : {{"enable"}}, newDescription : {""}]

CmdInit ==
    /\ op = "input"
    /\ arg \in Commands
    /\ ret = NoResult
    /\ server \in DistinctSeqsUpTo(CmdServerPool, MaxCmdServer)
    /\ pc = "start"
    /\ sent = <<>>
    /\ fetched = NoFetch

\* runMaskedFastmail: the checks of the arguments, then the handler
Dispatch ==
    /\ pc = "start"
    /\ op' = "dispatch"
    /\ IF arg.flags # {} /\ arg.description.given
       THEN /\ ret' = [NoResult EXCEPT !.err = "usage"]
            /\ pc' = "done"
       ELSE /\ pc' = handlerOf(arg.flags)
            /\ UNCHANGED ret
    /\ UNCHANGED <<arg, server, sent, fetched>>

\* the handlers' call of normalizeEmailInput
emailGiven == normalizeEmailInput(arg.identifier)

\* the alias GetAliasByEmail returned to the handler
targetAlias == findByEmail(fetched.list, 1, emailGiven.email).alias

\* handleStateUpdate: normalizeEmailInput rejects the identifier
UpdateRejects ==
    /\ pc = "update"
    /\ emailGiven.err # ""
    /\ op' = "update"
    /\ ret' = [NoResult EXCEPT !.err = emailGiven.err]
    /\ pc' = "done"
    /\ UNCHANGED <<arg, server, sent, fetched>>

\* handleStateUpdate calls GetAliasByEmail, which sends the MaskedEmail/get
UpdateStart ==
    /\ pc = "update"
    /\ emailGiven.err = ""
    /\ op' = "update"
    /\ sent' = Append(sent, GetRequest)
    /\ pc' = "update:fetching"
    /\ UNCHANGED <<arg, ret, server, fetched>>

\* a handler after GetAliasByEmail: it returns, or the request r is sent
AfterFound(found, r, waiting) ==
    IF r.err # "" \/ r.request = <<>>
    THEN /\ ret' = [NoResult EXCEPT !.err = r.err, !.email = found.alias.email,
                                   !.state = found.alias.state]
         /\ pc' = "done"
         /\ UNCHANGED sent
    ELSE /\ sent' = sent \o r.request
         /\ pc' = waiting
         /\ UNCHANGED ret

\* handleStateUpdate, GetAliasByEmail returning found
UpdateFound(found) ==
    AfterFound(found, stateUpdateRequest(found, newStateOf(arg.flags)), "updating")

\* handleStateUpdate: the fetch is answered; UpdateAliasStatus is called on
\* the alias found and sends its request unless the state is the same
UpdateFetched ==
    /\ pc = "update:fetching"
    /\ \E reply \in FetchReplies(server) :
          /\ fetched' = fetchOutcome(getMaskedEmail(reply))
          /\ UpdateFound(GetAliasByEmail(getMaskedEmail(reply), emailGiven.email))
    /\ op' = "fetch"
    /\ UNCHANGED <<arg, server>>

\* a handler after its set request is answered
AfterSet(result, reply, alias) ==
    /\ ret' = [NoResult EXCEPT !.err = result.err, !.email = alias.email,
                               !.state = alias.state]
    /\ server' = IF reply.applied THEN applyUpdate(server, sent[Len(sent)]) ELSE server

\* UpdateAliasStatus: the set request is answered
UpdateReplied ==
    /\ pc = "updating"
    /\ \E reply \in SetReplies(targetAlias.id) :
          AfterSet(UpdateAliasStatus(targetAlias, newStateOf(arg.flags), reply),
                   reply, targetAlias)
    /\ op' = "set"
    /\ pc' = "done"
    /\ UNCHANGED <<arg, sent, fetched>>

\* handleAliasList: prepareDomainInput rejects the identifier
ListRejects ==
    /\ pc = "list"
    /\ prepared.err # ""
    /\ op' = "list"
    /\ ret' = [NoResult EXCEPT !.err = prepared.err]
    /\ pc' = "done"
    /\ UNCHANGED <<arg, server, sent, fetched>>

\* handleAliasList calls FetchAllAliases
ListStart ==
    /\ pc = "list"
    /\ prepared.err = ""
    /\ op' = "list"
    /\ sent' = Append(sent, GetRequest)
    /\ pc' = "list:fetching"
    /\ UNCHANGED <<arg, ret, server, fetched>>

\* handleAliasList: the fetch is answered and the lists are printed
ListFetched ==
    /\ pc = "list:fetching"
    /\ \E reply \in FetchReplies(server) :
          /\ fetched' = fetchOutcome(FetchAllAliases(reply))
          /\ ret' = listResult(FetchAllAliases(reply), prepared)
    /\ op' = "fetch"
    /\ pc' = "done"
    /\ UNCHANGED <<arg, server, sent>>

\* handleDescriptionUpdate: normalizeEmailInput rejects the identifier
DescribeRejects ==
    /\ pc = "describe"
    /\ emailGiven.err # ""
    /\ op' = "describe"
    /\ ret' = [NoResult EXCEPT !.err = emailGiven.err]
    /\ pc' = "done"
    /\ UNCHANGED <<arg, server, sent, fetched>>

\* handleDescriptionUpdate calls GetAliasByEmail
DescribeStart ==
    /\ pc = "describe"
    /\ emailGiven.err = ""
    /\ op' = "describe"
    /\ sent' = Append(sent, GetRequest)
    /\ pc' = "describe:fetching"
    /\ UNCHANGED <<arg, ret, server, fetched>>

\* handleDescriptionUpdate, GetAliasByEmail returning found
DescribeFound(found) ==
    AfterFound(found, descriptionRequest(found, arg.newDescription), "describing")

\* handleDescriptionUpdate: the fetch is answered; UpdateAliasDescription is
\* called unless the description is the requested one already
DescribeFetched ==
    /\ pc = "describe:fetching"
    /\ \E reply \in FetchReplies(server) :
          /\ fetched' = fetchOutcome(getMaskedEmail(reply))
          /\ DescribeFound(GetAliasByEmail(getMaskedEmail(reply), emailGiven.email))
    /\ op' = "fetch"
    /\ UNCHANGED <<arg, server>>

\* UpdateAliasDescription: the set request is answered
DescribeReplied ==
    /\ pc = "describing"
    /\ \E reply \in SetReplies(targetAlias.id) :
          AfterSet(UpdateAliasDescription(targetAlias, arg.newDescription, reply),
                   reply, targetAlias)
    /\ op' = "set"
    /\ pc' = "done"
    /\ UNCHANGED <<arg, sent, fetched>>

CmdNext ==
    \/ Dispatch
    \/ LookupRejects
    \/ LookupStart
    \/ FetchFails
    \/ FetchReturns
    \/ CreateFails
    \/ CreateReturns
    \/ UpdateRejects
    \/ UpdateStart
    \/ UpdateFetched
    \/ UpdateReplied
    \/ ListRejects
    \/ ListStart
    \/ ListFetched
    \/ DescribeRejects
    \/ DescribeStart
    \/ DescribeFetched
    \/ DescribeReplied

SpecCommands == CmdInit /\ [][CmdNext]_vars

---------------------------------------------------------------------------
(* Claims about lookup-or-create (checked under Spec).                     *)

\* the positions of the create requests among the requests sent
CreatesSent == {i \in 1..Len(sent) : sent[i].kind = "create"}

\* the fetched records GetAliases counts as existing aliases of the normalized
\* domain: not deleted, forDomain equal to it
ExistingFetched ==
    {i \in 1..Len(fetched.list) :
        /\ fetched.list[i].state # AliasDeleted
        /\ fetched.list[i].forDomain = prepared.normalized}

\* C1: lookup-or-create sends at most one create request per invocation, and
\* only as the request right after a fetch that succeeded and found no
\* non-deleted alias for the normalized domain; after a failed fetch, or when
\* such an alias was found, no create request is sent.
C1_CreateOnlyAfterEmptyFetch ==
    /\ Cardinality(CreatesSent) <= 1
    /\ CreatesSent # {} =>
          /\ CreatesSent = {2}
          /\ sent[1].kind = "get"
          /\ fetched.status = "ok"
          /\ ExistingFetched = {}
    /\ fetched.status # "ok" => CreatesSent = {}
    /\ ExistingFetched # {} => CreatesSent = {}

\* C1 witness: an invocation ended with a fetch followed by one create
C1_Witness ==
    /\ pc = "done"
    /\ ret.createdNew
    /\ Len(sent) = 2
    /\ sent[1].kind = "get"
    /\ sent[2].kind = "create"
    /\ fetched.status = "ok"

\* the fetched records the matcher's rule counts as aliases of the target
MatchingFetched ==
    {i \in 1..Len(fetched.list) :
        /\ fetched.list[i].state # AliasDeleted
        /\ domainsEqual(fetched.list[i].forDomain, prepared.normalized)}

\* C2: lookup-or-create takes a non-deleted record as an existing alias of the
\* target iff domainsEqual(record.forDomain, target): once the fetch has
\* succeeded, a create request is sent iff no fetched record is one.
C2_LookupUsesMatcherRule ==
    fetched.status = "ok" => (CreatesSent # {} <=> MatchingFetched = {})

\* C25: a create request stores the normalized identity in forDomain, and its
\* description is the text the user supplied; when none was supplied the
\* description is empty, not derived from the domain or from anything else.
C25_CreateCarriesUserDescription ==
    \A i \in CreatesSent :
        /\ sent[i].forDomain = prepared.normalized
        /\ sent[i].description
             = (IF arg.description.given THEN arg.description.text ELSE "")

---------------------------------------------------------------------------
(* Claims about selectPreferredAlias (checked under SpecSelect).           *)

\* the priority order the specification gives: enabled, pending, disabled,
\* deleted, then every other state
StateRank(state) ==
    CASE state = "enabled" -> 0
      [] state = "pending" -> 1
      [] state = "disabled" -> 2
      [] state = "deleted" -> 3
      [] OTHER -> 4

KnownState(state) == state \in {"pending", "enabled", "disabled", "deleted"}

\* C3: selectPreferredAlias returns nil for an empty list; otherwise it returns
\* the record at the lowest index among those of minimal priority.
C3_SelectsFirstOfBest ==
    op = "select" =>
        IF Len(arg) = 0 THEN ret.index = 0
        ELSE /\ ret.index \in 1..Len(arg)
             /\ \A j \in 1..Len(arg) :
                    StateRank(arg[ret.index].state) <= StateRank(arg[j].state)
             /\ \A j \in 1..(ret.index - 1) :
                    StateRank(arg[j].state) > StateRank(arg[ret.index].state)

\* C3 witness: two enabled records after a pending one; the first enabled is selected
C3_Witness ==
    /\ op = "select"
    /\ Len(arg) = 3
    /\ arg[1].state = "pending"
    /\ arg[2].state = "enabled"
    /\ arg[3].state = "enabled"
    /\ ret.index = 2

\* C4: a record of unknown state has the worst priority: when some record has
\* a known state the selected one has a known state, wherever the unknown
\* ones sit; a list of unknown states only yields its first record; a
\* non-empty list always yields one of its records.
C4_UnknownStateIsWorst ==
    (op = "select" /\ Len(arg) > 0) =>
        /\ ret.index \in 1..Len(arg)
        /\ (\E j \in 1..Len(arg) : KnownState(arg[j].state))
              => KnownState(arg[ret.index].state)
        /\ (\A j \in 1..Len(arg) : ~KnownState(arg[j].state)) => ret.index = 1

\* C4 witness: an unknown state first, a deleted record second, which is selected
C4_Witness ==
    /\ op = "select"
    /\ Len(arg) >= 2
    /\ arg[1].state = "mystery"
    /\ arg[2].state = "deleted"
    /\ ret.index = 2
    /\ ret.warnings # <<>>

---------------------------------------------------------------------------
(* Claims about filterAliasesForList (checked under SpecList).             *)

\* the record is listed as an exact match: not deleted, matches the domain
ExactMatch(r) == r.state # AliasDeleted /\ aliasMatchesDomain(r, arg.query.target)

\* a needle, blank or in any letter case, occurs in one of the record's four
\* fields when letter case is ignored on both sides
FreeTextCI(r, needles) ==
    \E n \in 1..Len(needles) :
        LET needle == ToLower(TrimSpace(needles[n]))
        IN  /\ needle # ""
            /\ \E field \in {r.email, r.description, r.forDomain, r.id} :
                   Contains(ToLower(field), needle)

\* the record is a candidate for related: not deleted, no exact match, and a
\* subdomain match or a free-text match on the target or the search text
RelatedCandidate(r) ==
    /\ r.state # AliasDeleted
    /\ ~aliasMatchesDomain(r, arg.query.target)
    /\ \/ aliasMatchesSubdomain(r, arg.query.target)
       \/ FreeTextCI(r, <<arg.query.target, arg.query.search>>)

\* the id of the record at position i is not blank and was recorded by an
\* earlier record, listed in primary or a candidate for related
DuplicateAt(i) ==
    /\ arg.aliases[i].id # ""
    /\ \E j \in 1..(i - 1) :
          /\ arg.aliases[j].id = arg.aliases[i].id
          /\ ExactMatch(arg.aliases[j]) \/ RelatedCandidate(arg.aliases[j])

\* the positions whose records the dedup rule leaves in related, in order
KeptPositions ==
    SelectSeq([i \in 1..Len(arg.aliases) |-> i],
              LAMBDA i : RelatedCandidate(arg.aliases[i]) /\ ~DuplicateAt(i))

SeqRange(s) == {s[i] : i \in 1..Len(s)}

\* C5: primary is the subsequence, in input order, of the non-deleted records
\* that match the domain; a deleted record is in neither list.
C5_PrimaryIsExactSubsequence ==
    op = "filter" =>
        /\ ret.primary = SelectSeq(arg.aliases, ExactMatch)
        /\ \A r \in SeqRange(ret.primary) \cup SeqRange(ret.related) :
               r.state # AliasDeleted

\* C5 witness: a deleted alias of the target first, then two exact matches,
\* one of them by its description; primary holds the two in input order
C5_Witness ==
    /\ op = "filter"
    /\ Len(arg.aliases) = 3
    /\ arg.aliases[1].state = AliasDeleted
    /\ arg.aliases[1].forDomain = arg.query.target
    /\ arg.aliases[2].email = "b2@fm.com"
    /\ arg.aliases[3].email = "one@example.com"
    /\ ret.primary = <<arg.aliases[2], arg.aliases[3]>>
    /\ ret.related = <<>>

\* C6: related is, in input order, the non-deleted records without an exact
\* match that match the subdomain rule or the free-text rule on the normalized
\* target and the search text, less those the dedup rule removes; a record that
\* matches none of the three rules is in neither list; no record is in both.
C6_RelatedIsCandidatesInOrder ==
    op = "filter" =>
        /\ LET kept == KeptPositions
           IN  ret.related = [k \in 1..Len(kept) |-> arg.aliases[kept[k]]]
        /\ \A r \in SeqRange(arg.aliases) :
               (/\ ~aliasMatchesDomain(r, arg.query.target)
                /\ ~aliasMatchesSubdomain(r, arg.query.target)
                /\ ~FreeTextCI(r, <<arg.query.target, arg.query.search>>))
               => r \notin SeqRange(ret.primary) \cup SeqRange(ret.related)
        /\ SeqRange(ret.primary) \cap SeqRange(ret.related) = {}

\* C6 witness: a parent domain of the target, an unmatched record, a free-text
\* match on a search text typed in capitals; related holds the first and the third
C6_Witness ==
    /\ op = "filter"
    /\ arg.query.search = "DUP5"
    /\ Len(arg.aliases) = 3
    /\ arg.aliases[1].email = "one@example.com"
    /\ arg.aliases[2].email = "dup1@fm.com"
    /\ arg.aliases[3].email = "dup5@fm.com"
    /\ ret.primary = <<>>
    /\ ret.related = <<arg.aliases[1], arg.aliases[3]>>

\* the first position whose record has the id and is listed or a candidate, 0 if none
FirstRecorded(id) ==
    MinOrZero({i \in 1..Len(arg.aliases) :
                  /\ arg.aliases[i].id = id
                  /\ ExactMatch(arg.aliases[i]) \/ RelatedCandidate(arg.aliases[i])})

RelatedWithId(id) == {k \in 1..Len(ret.related) : ret.related[k].id = id}

\* C7: related holds a non-blank id at most once, and holds it only when the
\* first record that recorded the id was a candidate for related (not one
\* listed in primary); every candidate with a blank id is in related.
C7_DedupByNonBlankIdOnly ==
    op = "filter" =>
        /\ \A id \in {r.id : r \in SeqRange(arg.aliases)} \ {""} :
               Cardinality(RelatedWithId(id)) =
                   IF /\ FirstRecorded(id) # 0
                      /\ RelatedCandidate(arg.aliases[FirstRecorded(id)])
                   THEN 1 ELSE 0
        /\ Cardinality(RelatedWithId("")) =
               Cardinality({i \in 1..Len(arg.aliases) :
                               /\ arg.aliases[i].id = ""
                               /\ RelatedCandidate(arg.aliases[i])})

\* C7 witness: a subdomain match is listed in related, a free-text match
\* carrying the same id is dropped, and a blank-id candidate is kept
C7_Witness ==
    /\ op = "filter"
    /\ Len(arg.aliases) = 3
    /\ arg.aliases[1].email = "sub@example.com"
    /\ arg.aliases[2].email = "dup5@fm.com"
    /\ arg.aliases[2].id = arg.aliases[1].id
    /\ RelatedCandidate(arg.aliases[2])
    /\ arg.aliases[3].id = ""
    /\ ret.related = <<arg.aliases[1], arg.aliases[3]>>

\* three blank-id candidates in a row, the same record each time: all are kept
C7_BlankIdsKept ==
    /\ op = "filter"
    /\ Len(arg.aliases) = 3
    /\ arg.aliases[1].id = ""
    /\ arg.aliases[2] = arg.aliases[1]
    /\ arg.aliases[3] = arg.aliases[1]
    /\ ret.related = arg.aliases

---------------------------------------------------------------------------
(* Claims about the match predicates (checked under SpecMatch).            *)

\* the text holds nothing but spaces
Blank(text) == \A i \in 1..Len(text) : SubSeq(text, i, i) = " "

\* what a reader takes the text to name
OriginOf(text) == CHOOSE k \in KnownOrigins : k.text = text

\* the two texts name the same origin
SameOrigin(a, b) ==
    /\ OriginOf(a).host # ""
    /\ OriginOf(a).host = OriginOf(b).host
    /\ OriginOf(a).scheme = OriginOf(b).scheme

\* C8: aliasMatchesDomain is true iff forDomain equals the target as
\* domainsEqual has it, or, only when forDomain is blank, the description
\* does; a non-blank forDomain that differs gives false whatever the
\* description.  Equality is also the equality of the origins the texts name.
C8_DomainMatchRule ==
    op = "matchesDomain" =>
        /\ ret = \/ domainsEqual(arg.alias.forDomain, arg.target)
                 \/ /\ Blank(arg.alias.forDomain)
                    /\ domainsEqual(arg.alias.description, arg.target)
        /\ ret = \/ SameOrigin(arg.alias.forDomain, arg.target)
                 \/ /\ Blank(arg.alias.forDomain)
                    /\ SameOrigin(arg.alias.description, arg.target)
        /\ (~Blank(arg.alias.forDomain)
            /\ ~SameOrigin(arg.alias.forDomain, arg.target)) => ret = FALSE

\* C8 witness: forDomain names another origin and the description the target: no match
C8_Witness ==
    /\ op = "matchesDomain"
    /\ arg.alias.forDomain = "https://other.com"
    /\ arg.alias.description = "https://example.com"
    /\ arg.target = "https://example.com"
    /\ ret = FALSE

\* the host of the record: of forDomain, or of the description when forDomain is blank
RecordHost ==
    OriginOf(IF Blank(arg.alias.forDomain) THEN arg.alias.description
             ELSE arg.alias.forDomain).host

TargetHost == OriginOf(arg.target).host

\* the record with the target as its forDomain, and the text its host came from
SwappedAlias == [arg.alias EXCEPT !.forDomain = arg.target]
SwappedTarget ==
    IF Blank(arg.alias.forDomain) THEN arg.alias.description ELSE arg.alias.forDomain

\* C9: aliasMatchesSubdomain is true iff the record's host ends with "." and
\* the target's host or the other way round, the record's host taken from
\* forDomain or, only when that is blank, from the description; it is false
\* for equal hosts and when a host cannot be extracted, and exchanging the two
\* hosts does not change it.
C9_SubdomainMatchRule ==
    op = "matchesSubdomain" =>
        /\ ret = /\ RecordHost # ""
                 /\ TargetHost # ""
                 /\ \/ HasSuffix(RecordHost, "." \o TargetHost)
                    \/ HasSuffix(TargetHost, "." \o RecordHost)
        /\ RecordHost = TargetHost => ret = FALSE
        /\ RecordHost = "" => ret = FALSE
        /\ ret = aliasMatchesSubdomain(SwappedAlias, SwappedTarget)

\* C9 witness: forDomain blank, the description a subdomain of the target: a match
C9_Witness ==
    /\ op = "matchesSubdomain"
    /\ arg.alias.forDomain = "  "
    /\ arg.alias.description = "https://Sub.Example.com/"
    /\ arg.target = "https://example.com"
    /\ ret = TRUE

\* C10: aliasMatchesSearch is true iff some non-blank needle occurs in the
\* email, the description, forDomain or the id when letter case is ignored,
\* whatever the letter case of the needle and of the field.
C10_FreeTextIgnoresCase ==
    op = "matchesSearch" => ret = FreeTextCI(arg.alias, arg.needles)

---------------------------------------------------------------------------
(* Claims about the canonicalizer and the classifier (checked under        *)
(* SpecCanon).                                                             *)

\* C11: normalizeOrigin is idempotent: applied to a result of its own it
\* succeeds and returns the same string.
C11_NormalizeIdempotent ==
    op = "renormalize" => ret.second = ret.first

\* C12: when normalizeOrigin succeeds the result is the lower-cased scheme
\* (https when the input has no "://"), "://" and the lower-cased host less one
\* trailing dot; padding, user-info, port, path, query and fragment leave no
\* trace, so every way of writing a scheme and a host gives the same result.
C12_NormalizedForm ==
    (op = "normalize" /\ arg.a.fails = "") =>
        ret = [err |-> "", value |-> arg.a.scheme \o "://" \o arg.a.host]

\* C12 witness: an input with padding, an upper-case scheme, user-info, a
\* port, a path, a query and a fragment
C12_Witness ==
    /\ op = "normalize"
    /\ arg.a.text = " HTTP://user@Sub.Example.COM:443/Login?next=1#top "
    /\ ret = [err |-> "", value |-> "http://sub.example.com"]

\* the literal domainsEqual falls back to
FallbackLiteral(text) == TrimRight(ToLower(TrimSpace(text)), "/")

\* C13: domainsEqual returns a boolean; when both arguments normalize it is
\* the equality of the normalized forms, that is of the schemes and the hosts
\* they name; when one does not, it is the equality of the literals trimmed,
\* lower-cased and without trailing slashes.
C13_DomainsEqualRule ==
    op = "domainsEqual" =>
        /\ ret \in BOOLEAN
        /\ (arg.a.fails = "" /\ arg.b.fails = "") =>
               /\ ret = (normalizeOrigin(arg.a.text).value
                           = normalizeOrigin(arg.b.text).value)
               /\ ret = (arg.a.scheme = arg.b.scheme /\ arg.a.host = arg.b.host)
        /\ (arg.a.fails # "" \/ arg.b.fails # "") =>
               ret = (FallbackLiteral(arg.a.text) = FallbackLiteral(arg.b.text))

\* C13 witness: neither argument parses, the literals differ in case and in a
\* trailing slash only
C13_Witness ==
    /\ op = "domainsEqual"
    /\ arg.a.text = "exa mple.com/"
    /\ arg.b.text = "exa mple.com"
    /\ ret = TRUE

\* both arguments normalize and differ in case, port, path and trailing dot only
C13_EqualWhenNormalized ==
    /\ op = "domainsEqual"
    /\ arg.a.text = "Sub.Example.COM:443/Login?next=1#top"
    /\ arg.b.text = "sub.example.com:8443"
    /\ ret = TRUE

\* the text is empty or holds white space only
BlankInput(text) == \A i \in 1..Len(text) : SubSeq(text, i, i) \in {" ", "\t", "\n", "\r"}

\* C14: normalizeOrigin fails with EmptyInput on a blank input, with
\* ParseFailure when the input with its scheme does not parse, with
\* MissingHost when the parsed host is empty; a failure returns no identity.
C14_NormalizeErrors ==
    op = "normalize" =>
        /\ BlankInput(arg.a.text) => ret.err = "EmptyInput"
        /\ arg.a.fails # "" => ret.err = arg.a.fails
        /\ ret.err \in {"", "EmptyInput", "ParseFailure", "MissingHost"}
        /\ ret.err # "" => ret.value = ""

\* C14 witness: a URL with a path and no host
C14_Witness ==
    /\ op = "normalize"
    /\ arg.a.text = "https:///login"
    /\ ret = [err |-> "MissingHost", value |-> ""]

\* the classifier as specified: exactly one '@' and no white space of any kind
ClassifiesAsEmail(text) ==
    /\ Count(text, "@") = 1
    /\ \A i \in 1..Len(text) : SubSeq(text, i, i) \notin {" ", "\t", "\n", "\r", "\f"}

\* C15: prepareDomainInput fails on a blank input, fails with AmbiguousInput
\* when the trimmed input classifies as an email address, and otherwise
\* returns the trimmed input with its normalized form, or normalizeOrigin's error.
C15_PrepareDomainInputRule ==
    op = "prepareDomainInput" =>
        LET trimmed == TrimSpace(arg.a.text)
            n == normalizeOrigin(trimmed)
        IN  IF trimmed = "" THEN ret.err # ""
            ELSE IF ClassifiesAsEmail(trimmed) THEN ret.err = "AmbiguousInput"
            ELSE IF n.err # "" THEN ret.err = n.err
            ELSE ret = [err |-> "", display |-> trimmed, normalized |-> n.value]

\* C16: normalizeEmailInput returns the trimmed input when it classifies as an
\* email address and fails with NotAnEmail on every other input, the empty
\* one included.
C16_NormalizeEmailInputRule ==
    op = "normalizeEmailInput" =>
        LET trimmed == TrimSpace(arg.a.text)
        IN  IF ClassifiesAsEmail(trimmed) THEN ret = [err |-> "", email |-> trimmed]
            ELSE ret = [err |-> "NotAnEmail", email |-> ""]

\* C28: looksLikeEmailAddress is true iff the trimmed string holds exactly one
\* '@' and no white space of any kind (space, tab, newline or other); with no
\* '@' or with two or more it is false.
C28_ClassifierRule ==
    op = "looksLikeEmail" =>
        /\ ret = ClassifiesAsEmail(TrimSpace(arg.a.text))
        /\ Count(arg.a.text, "@") # 1 => ret = FALSE

\* C30: prepareDomainInput and normalizeEmailInput never both succeed on the
\* same input, and a blank input is rejected by both.
C30_ClassifiersExclusive ==
    op = "classifiers" =>
        /\ ~(ret.domain.err = "" /\ ret.email.err = "")
        /\ BlankInput(arg.a.text) => (ret.domain.err # "" /\ ret.email.err # "")

\* C30 witness: an address that would normalize as an origin with user-info
\* is taken as an address only
C30_Witness ==
    /\ op = "classifiers"
    /\ arg.a.text = " user@Sub.Example.COM "
    /\ normalizeOrigin(arg.a.text).err = ""
    /\ ret.domain.err = "AmbiguousInput"
    /\ ret.email = [err |-> "", email |-> "user@Sub.Example.COM"]

\* an identifier with two '@' is taken as a domain only
C30_DomainOnly ==
    /\ op = "classifiers"
    /\ arg.a.text = "a@b@example.com"
    /\ ret.domain.err = ""
    /\ ret.email.err = "NotAnEmail"

---------------------------------------------------------------------------
(* Claims about the envelope validators (checked under SpecValidate and    *)
(* SpecExpect).                                                            *)

\* the entry's first element is a string that ends in "/error"
NamedAsError(entry) ==
    /\ Len(entry) > 0
    /\ entry[1].json = "string"
    /\ HasSuffix(entry[1].raw, "/error")

\* C17: validateJMAPResponse succeeds iff the top-level error list is empty,
\* there is at least one entry, every entry has at least 2 elements and no
\* method name ends in "/error"; it fails with EmptyResponse on zero entries,
\* with ProtocolError on a non-empty error list, with MalformedEntry when an
\* entry has fewer than 2 elements.
C17_ValidateResponseRule ==
    op = "validateJMAPResponse" =>
        /\ ret.err = "" <=>
              /\ arg.methodErrors = <<>>
              /\ Len(arg.methodResponses) > 0
              /\ \A i \in 1..Len(arg.methodResponses) :
                     /\ Len(arg.methodResponses[i]) >= 2
                     /\ ~NamedAsError(arg.methodResponses[i])
        /\ arg.methodErrors # <<>> => ret.err = "ProtocolError"
        /\ (arg.methodErrors = <<>> /\ Len(arg.methodResponses) = 0)
              => ret.err = "EmptyResponse"
        /\ (arg.methodErrors = <<>> /\ Len(arg.methodResponses) > 0
            /\ Len(arg.methodResponses[1]) < 2
            /\ ~NamedAsError(arg.methodResponses[1]))
              => ret.err = "MalformedEntry"

\* the first entry named as an error, 0 if there is none
FirstNamedAsError ==
    MinOrZero({i \in 1..Len(arg.methodResponses) : NamedAsError(arg.methodResponses[i])})

\* C18: when an entry's method name ends in "/error", whatever comes before
\* the suffix, validation fails, with a MethodError unless the error list or
\* an earlier entry has already failed it; the MethodError of a first entry
\* carries the payload's type and message when the payload is an object, else
\* the raw payload.
C18_ErrorSuffixIsMethodError ==
    (op = "validateJMAPResponse" /\ FirstNamedAsError # 0) =>
        /\ ret.err # ""
        /\ (arg.methodErrors = <<>> /\ FirstNamedAsError = 1) =>
              /\ ret.err = "MethodError"
              /\ Len(arg.methodResponses[1]) > 1 =>
                    IF arg.methodResponses[1][2].json = "object"
                    THEN /\ ret.type = arg.methodResponses[1][2].type
                         /\ ret.message = arg.methodResponses[1][2].message
                    ELSE ret.raw = arg.methodResponses[1][2].raw

\* C19: validateMethodResponse succeeds iff index is in [0, number of entries)
\* and the entry at index has at least minElements elements; otherwise it
\* returns IndexOutOfRange or TooFewElements, and it never panics.
C19_ExpectRule ==
    op = "validateMethodResponse" =>
        IF /\ arg.index >= 0
           /\ arg.index < Len(arg.response.methodResponses)
           /\ Len(arg.response.methodResponses[arg.index + 1]) >= arg.minElements
        THEN ret.err = ""
        ELSE ret.err \in {"IndexOutOfRange", "TooFewElements"}

---------------------------------------------------------------------------
(* Claims about the client operations (checked under SpecClient).          *)

ClientOperations == {"getMaskedEmail", "CreateAlias", "UpdateAliasStatus"}

\* the steps of kind "access" among the steps of the operation
AccessSteps == {k \in 1..Len(ret.steps) : ret.steps[k].kind = "access"}

\* C20: whatever the reply, each client operation ends with a result or a
\* reported error and never by a panic: MethodResponses[i][j] is read only
\* where entry i exists with more than j elements, only after
\* validateMethodResponse has passed for that entry with more than j
\* elements, and only after validateJMAPResponse has passed; a parsed
\* response is validated before anything else is done with it.
C20_NoAccessBeforeValidation ==
    op \in ClientOperations =>
        /\ ret.err # "panic"
        /\ \A k \in 1..Len(ret.steps) : ret.steps[k].err # "panic"
        /\ \A k \in AccessSteps :
              /\ ret.steps[k].index < Len(arg.reply.response.methodResponses)
              /\ ret.steps[k].element
                   < Len(arg.reply.response.methodResponses[ret.steps[k].index + 1])
              /\ \E v \in 1..(k - 1) :
                    /\ ret.steps[v].kind = "validateJMAPResponse"
                    /\ ret.steps[v].err = ""
              /\ \E e \in 1..(k - 1) :
                    /\ ret.steps[e].kind = "validateMethodResponse"
                    /\ ret.steps[e].index = ret.steps[k].index
                    /\ ret.steps[e].element > ret.steps[k].element
                    /\ ret.steps[e].err = ""
        /\ (Len(ret.steps) > 0) => ret.steps[1].kind = "validateJMAPResponse"
        /\ (arg.reply.transport = "ok" /\ ret.err # "AlreadyInState") => Len(ret.steps) > 0

\* C20 witness: CreateAlias gets a response whose only entry has one element
\* and reports it without reading the entry
C20_Witness ==
    /\ op = "CreateAlias"
    /\ arg.reply.transport = "ok"
    /\ arg.reply.response.methodErrors = <<>>
    /\ Len(arg.reply.response.methodResponses) = 1
    /\ Len(arg.reply.response.methodResponses[1]) = 1
    /\ ret.err = "MalformedEntry"
    /\ AccessSteps = {}

\* getMaskedEmail reads MethodResponses[0][1] of a validated response and returns its list
C20_ReadAfterValidation ==
    /\ op = "getMaskedEmail"
    /\ ret.err = ""
    /\ Len(ret.value) = 1
    /\ AccessSteps = {3}

\* the payload of the reply's first entry, which the operations decode
FirstPayload == arg.reply.response.methodResponses[1][2]

\* C29: a mutation reports success only when the response confirms it:
\* UpdateAliasStatus succeeds only if the 'updated' map holds the alias id, and
\* CreateAlias returns an alias only if the 'created' object holds the created
\* alias; a response without it yields an error, not an empty alias.
C29_MutationConfirmed ==
    /\ (op = "UpdateAliasStatus" /\ ret.err = "") =>
           arg.alias.id \in FirstPayload.updated
    /\ (op = "CreateAlias" /\ ret.err = "") =>
           /\ FirstPayload.created # ""
           /\ ret.value = FirstPayload.created

---------------------------------------------------------------------------
(* Claims about the commands (checked under SpecCommands).                 *)

\* the positions of the requests of the kinds among the requests sent
SentOfKind(kinds) == {i \in 1..Len(sent) : sent[i].kind \in kinds}

SetKinds == {"create", "update", "describe"}

\* the fetched records with the email the command names
FetchedWithEmail ==
    {k \in 1..Len(fetched.list) : fetched.list[k].email = TrimSpace(arg.identifier)}

\* C22: each call of the remote service is a single request: a command sends
\* at most one fetch and at most one set request, and when the fetch fails
\* (connection failure, timeout, HTTP status outside 2xx) the command ends
\* with that failure, the fetch being the only request sent: no retry, and
\* no later step such as the state update.
C22_SingleRequestNoRetry ==
    /\ Cardinality(SentOfKind({"get"})) <= 1
    /\ Cardinality(SentOfKind(SetKinds)) <= 1
    /\ SentOfKind({"get"}) \subseteq {1}
    /\ fetched.status = "failed" =>
          /\ sent = <<GetRequest>>
          /\ pc = "done"
          /\ ret.err # ""
    /\ (pc = "done" /\ ret.err = "TransportError" /\ fetched.status = "ok") =>
          /\ Len(sent) = 2
          /\ server = fetched.list

\* C22 witness: the fetch of a state update got no response, and the command
\* ended there
C22_Witness ==
    /\ arg.flags = {"enable"}
    /\ arg.identifier = "a1@fm.com"
    /\ Len(server) > 0
    /\ server[1].email = "a1@fm.com"
    /\ fetched.status = "failed"
    /\ ret.err = "TransportError"
    /\ sent = <<GetRequest>>
    /\ pc = "done"

\* the set request of a state update got no response, and the command ended
C22_SetFailed ==
    /\ arg.flags = {"disable"}
    /\ fetched.status = "ok"
    /\ ret.err = "TransportError"
    /\ Len(sent) = 2
    /\ sent[2] = UpdateRequest("1", AliasDisabled)
    /\ pc = "done"

\* C23: deleted is terminal: no state-update request is sent for a record the
\* command fetched in state deleted, lookup-or-create never returns a
\* deleted record, and the listing never shows one.
C23_DeletedIsTerminal ==
    /\ \A i \in SentOfKind({"update"}) :
          \A k \in 1..Len(fetched.list) :
              fetched.list[k].id = sent[i].id => fetched.list[k].state # AliasDeleted
    /\ (arg.flags = {} /\ pc = "done" /\ ret.err = "" /\ ~ret.createdNew) =>
          \E k \in 1..Len(fetched.list) :
              /\ fetched.list[k].email = ret.email
              /\ fetched.list[k].state # AliasDeleted
    /\ (handlerOf(arg.flags) = "list" /\ pc = "done" /\ ret.err = "") =>
          /\ \A k \in 1..Len(ret.primary) : ret.primary[k].state # AliasDeleted
          /\ \A k \in 1..Len(ret.related) : ret.related[k].state # AliasDeleted

\* C24: in lookup-or-create a description given with a domain for which the
\* fetch found an alias is ignored: the fetch is the only request and the
\* records are left as they were fetched; the description of a fetched record
\* differs afterwards only when the command is the description update.
C24_DescriptionIgnoredForExisting ==
    /\ (arg.flags = {} /\ fetched.status = "ok" /\ ExistingFetched # {}) =>
          /\ sent = <<GetRequest>>
          /\ server = fetched.list
    /\ \A k \in 1..Len(fetched.list) :
          server[k].description # fetched.list[k].description =>
              handlerOf(arg.flags) = "describe"

\* C24 witness: a description was given for a domain with an alias, which is
\* returned with its own description
C24_Witness ==
    /\ arg.flags = {}
    /\ arg.description = [given |-> TRUE, text |-> "Shopping account"]
    /\ pc = "done"
    /\ ret.err = ""
    /\ ret.email = "a1@fm.com"
    /\ ~ret.createdNew
    /\ sent = <<GetRequest>>
    /\ \E k \in 1..Len(server) :
          server[k].email = "a1@fm.com" /\ server[k].description = "Bank"

\* the description update has changed the description of the alias
C24_DescriptionUpdated ==
    /\ "set-description" \in arg.flags
    /\ arg.newDescription = ""
    /\ pc = "done"
    /\ ret.err = ""
    /\ Len(sent) = 2
    /\ sent[2] = DescriptionRequest("1", "")
    /\ \E k \in 1..Len(server) :
          /\ server[k].email = "a1@fm.com"
          /\ server[k].description = ""
          /\ fetched.list[k].description = "Bank"

\* C26: the listing sends at most one request, a fetch, and no create,
\* state-update or description-update request; it leaves the records as
\* fetched and copies nothing to the clipboard.
C26_ListOnlyFetches ==
    handlerOf(arg.flags) = "list" =>
        /\ Len(sent) <= 1
        /\ \A i \in 1..Len(sent) : sent[i] = GetRequest
        /\ ret.copied = ""
        /\ fetched.status = "ok" => server = fetched.list

\* C26 witness: a listing that found an alias of the domain
C26_Witness ==
    /\ arg.flags = {"list"}
    /\ pc = "done"
    /\ ret.err = ""
    /\ Len(ret.primary) > 0
    /\ ret.primary[1].email = "a1@fm.com"
    /\ sent = <<GetRequest>>
    /\ ret.copied = ""

\* C27: a state update that asks for the state the alias is in returns an
\* error and sends no set request, the record staying as fetched; a state
\* update for an email no fetched alias has returns alias-not-found and sends
\* no set request.
C27_NoRequestWithoutChange ==
    (handlerOf(arg.flags) = "update" /\ fetched.status = "ok") =>
        /\ FetchedWithEmail = {} =>
              /\ pc = "done"
              /\ ret.err = "AliasNotFound"
              /\ SentOfKind(SetKinds) = {}
              /\ server = fetched.list
        /\ (\E k \in FetchedWithEmail :
                 fetched.list[k].state = newStateOf(arg.flags)) =>
              /\ pc = "done"
              /\ ret.err = "AlreadyInState"
              /\ SentOfKind(SetKinds) = {}
              /\ server = fetched.list

\* C27 witness: --enable for an alias that is enabled
C27_Witness ==
    /\ arg.flags = {"enable"}
    /\ arg.identifier = "a1@fm.com"
    /\ fetched.status = "ok"
    /\ FetchedWithEmail # {}
    /\ ret.err = "AlreadyInState"
    /\ sent = <<GetRequest>>

\* --delete for an email the server has no alias of
C27_NotFound ==
    /\ arg.flags = {"delete"}
    /\ arg.identifier = "nobody@fm.com"
    /\ Len(fetched.list) > 0
    /\ ret.err = "AliasNotFound"
    /\ sent = <<GetRequest>>

---------------------------------------------------------------------------
(* Claims about buildRequest (checked under SpecBuild).                    *)

\* the calls one of whose parts has no JSON encoding
Unserializable == {i \in 1..Len(arg) : arg[i].arguments.fails \/ arg[i].clientID.fails}

\* C21: for N calls that serialize, buildRequest returns an envelope of
\* exactly N serialized calls, the i-th being the 3-element array [method
\* name, arguments, correlation token] of the i-th call, with exactly the
\* core and the masked-email capability; it fails only when a call does not
\* serialize, and then returns no envelope.
C21_BuildRequestRule ==
    op = "buildRequest" =>
        IF Unserializable = {}
        THEN /\ ret.err = ""
             /\ ret.using = <<"urn:ietf:params:jmap:core",
                              "https://www.fastmail.com/dev/maskedemail">>
             /\ Len(ret.methodCalls) = Len(arg)
             /\ \A i \in 1..Len(arg) :
                    ret.methodCalls[i]
                      = <<JString(arg[i].name), arg[i].arguments.json,
                          arg[i].clientID.json>>
        ELSE /\ ret.err # ""
             /\ ret.using = <<>>
             /\ ret.methodCalls = <<>>

\* C21 witness: a get call followed by a set call with a token, built in order
C21_Witness ==
    /\ op = "buildRequest"
    /\ Len(arg) = 2
    /\ ret.err = ""
    /\ ret.methodCalls[1][1].raw = "MaskedEmail/get"
    /\ ret.methodCalls[1][2].raw = "{accountId,properties}"
    /\ ret.methodCalls[1][3] = JNull
    /\ ret.methodCalls[2][1].raw = "MaskedEmail/set"
    /\ ret.methodCalls[2][2].raw = "{create,accountId}"
    /\ ret.methodCalls[2][3] = JString("c1")

\* the second call's token does not serialize: no envelope is returned
C21_FailsOnSecondCall ==
    /\ op = "buildRequest"
    /\ Unserializable = {2}
    /\ ~arg[2].arguments.fails
    /\ ret = BuildError("MarshalClientID")

=============================================================================
